---------------------------- MODULE Spec2Model ----------------------------
(***************************************************************************)
(* A model of the class-roster cleaning stages (src/cleaning_stages.py,    *)
(* src/picture_day_cleaning_stage.py) and of the class grouping stage, the *)
(* pipeline and the main window (src/class_roster_ui.py).                  *)
(*                                                                         *)
(* Text is modelled by TLA+ strings; a character is a string of length 1.  *)
(* The Python string methods the code calls (strip, lower, upper, title,   *)
(* capitalize, isupper, split, startswith, "in") are operators that        *)
(* compute what the methods compute on the characters of Alphabet.         *)
(***************************************************************************)
EXTENDS Integers, Sequences, FiniteSets, TLC

VARIABLES
    cn_stage,       \* which _clean_name is applied: "json" or "rocl"
    cn_input,       \* the name handed to the first _clean_name call
    cn_out,         \* the results of the successive _clean_name calls
    sched_rows,     \* the schedule_data mappings _build_teacher_map has consumed
    teacher_map,    \* the teacher_map dict, in insertion order
    lk_done,        \* whether _lookup_teacher has been called
    lk_query,       \* the grade_level argument of the last _lookup_teacher call
    lk_result,      \* what the last _lookup_teacher call returned
    grp_pc,         \* _group_by_class: "loop" over the rows, then "done"
    grp_rows,       \* the worksheet rows the loop has read, in order
    groups,         \* the groups dict, in insertion order; students are sets
    grp_result,     \* the returned groups, each students set sorted to a list
    workbook,       \* the input workbook: its worksheets in sheetnames order
    js_pc,          \* process(): "extract", "normalize", then "done"
    js_i,           \* how many items the running sheet loop has handled
    raw_data,       \* json_structure['raw_data'], in insertion order
    processed_sheets,   \* json_structure['metadata']['processed_sheets']
    skipped_sheets,     \* json_structure['metadata']['skipped_sheets']
    has_teacher_column, \* has_teacher_column of _normalize_and_match_fields
    js_teacher_map,     \* teacher_map of _normalize_and_match_fields
    normalized_records, \* normalized_records of _normalize_and_match_fields
    data,           \* what process() has put in the data dict
    pl_pc,          \* execute(): "load", "stages", then "returned" or "raised"
    pl_stages,      \* self.stages of the pipeline: the class of each stage
    pl_source,      \* the file at source_path
    pl_writable,    \* whether a workbook can be saved at output_path
    pl_k,           \* how many stages have run
    pl_data,        \* the data dict of execute()
    pl_saved,       \* the workbook saved at output_path
    pl_exc,         \* the exception raised inside execute(), if any
    pl_outcome,     \* the (success, message, result_data) execute() returned
    cc_stage,       \* the class of the stage object(s) the two threads call
    cc_shared,      \* whether the two threads call one stage object
    cc_wb,          \* the workbook of each thread's data dict
    cc_pc,          \* each thread's place in process()
    cc_self,        \* self.json_data of each stage object (0: None)
    cc_heap,        \* the extraction each thread's _extract_to_json created
    cc_local,       \* the local variables of each thread's process()
    cc_ret,         \* the data dict each thread's process() returned
    gf_pc,          \* position of the _is_grid_format call
    gf_sheet,       \* the worksheet it is given
    gf_result,      \* what it returned
    rc_pc,          \* position of the worksheet call
    rc_stage,       \* the class of the stage that is given the worksheet
    rc_sheet,       \* the worksheet
    rc_header,      \* (header_row, idxs) of _find_header_row_and_indices
    rc_records,     \* the records the stage made of the worksheet
    fn_pc,          \* position of the call of a single method
    fn_arg,         \* what the method is given
    fn_out,         \* what it returned
    raw_source_label,   \* the text of raw_source_label
    std_output_label,   \* the text of std_output_label
    split_source_label, \* the text of split_source_label
    split_output_label, \* the text of split_output_label
    clean_btn,      \* clean_btn.isEnabled()
    split_btn,      \* split_btn.isEnabled()
    clean_running,  \* the cleaning ProcessThreads started and not yet finished
    split_running   \* the splitting ProcessThreads started and not yet finished

nameVars == <<cn_stage, cn_input, cn_out>>
schedVars == <<sched_rows, teacher_map, lk_done, lk_query, lk_result>>
groupVars == <<grp_pc, grp_rows, groups, grp_result>>
jsonVars == <<workbook, js_pc, js_i, raw_data, processed_sheets, skipped_sheets,
              has_teacher_column, js_teacher_map, normalized_records, data>>
pipeVars == <<pl_pc, pl_stages, pl_source, pl_writable, pl_k, pl_data, pl_saved,
              pl_exc, pl_outcome>>
callVars == <<cc_stage, cc_shared, cc_wb, cc_pc, cc_self, cc_heap, cc_local,
              cc_ret>>
gridVars == <<gf_pc, gf_sheet, gf_result>>
roclVars == <<rc_pc, rc_stage, rc_sheet, rc_header, rc_records>>
fnVars == <<fn_pc, fn_arg, fn_out>>

guiVars == <<raw_source_label, std_output_label, split_source_label,
             split_output_label, clean_btn, split_btn, clean_running,
             split_running>>

vars == <<cn_stage, cn_input, cn_out,
          sched_rows, teacher_map, lk_done, lk_query, lk_result,
          grp_pc, grp_rows, groups, grp_result,
          workbook, js_pc, js_i, raw_data, processed_sheets, skipped_sheets,
          has_teacher_column, js_teacher_map, normalized_records, data,
          pl_pc, pl_stages, pl_source, pl_writable, pl_k, pl_data, pl_saved,
          pl_exc, pl_outcome,
          cc_stage, cc_shared, cc_wb, cc_pc, cc_self, cc_heap, cc_local, cc_ret,
          gf_pc, gf_sheet, gf_result,
          rc_pc, rc_stage, rc_sheet, rc_header, rc_records,
          fn_pc, fn_arg, fn_out,
          raw_source_label, std_output_label, split_source_label, split_output_label, clean_btn, split_btn, clean_running, split_running>>

(***************************************************************************)
(* Characters and the str methods                                          *)
(***************************************************************************)
UpperAlpha == "ABCDEFGHIJKLMNOPQRSTUVWXYZ"
LowerAlpha == "abcdefghijklmnopqrstuvwxyz"
DigitChars == {"0", "1", "2", "3", "4", "5", "6", "7", "8", "9"}
SpaceChars == {" ", "\t", "\n"}

Chr(s, i) == SubSeq(s, i, i)

Tail1(s) == SubSeq(s, 2, Len(s))

UpperChars == {Chr(UpperAlpha, i) : i \in 1..Len(UpperAlpha)}
LowerChars == {Chr(LowerAlpha, i) : i \in 1..Len(LowerAlpha)}

ToLowerMap ==
    [c \in UpperChars |->
        Chr(LowerAlpha, CHOOSE i \in 1..Len(UpperAlpha) : Chr(UpperAlpha, i) = c)]

ToUpperMap ==
    [c \in LowerChars |->
        Chr(UpperAlpha, CHOOSE i \in 1..Len(LowerAlpha) : Chr(LowerAlpha, i) = c)]

LowerChar(c) == IF c \in UpperChars THEN ToLowerMap[c] ELSE c
UpperChar(c) == IF c \in LowerChars THEN ToUpperMap[c] ELSE c
IsCased(c) == c \in UpperChars \/ c \in LowerChars

\* str.lower()
RECURSIVE Lower(_)
Lower(s) == IF s = "" THEN "" ELSE LowerChar(Chr(s, 1)) \o Lower(Tail1(s))

\* str.upper()
RECURSIVE Upper(_)
Upper(s) == IF s = "" THEN "" ELSE UpperChar(Chr(s, 1)) \o Upper(Tail1(s))

\* str.lstrip(), str.rstrip(), str.strip()
RECURSIVE LStrip(_)
LStrip(s) ==
    IF s # "" /\ Chr(s, 1) \in SpaceChars THEN LStrip(Tail1(s)) ELSE s

RECURSIVE RStrip(_)
RStrip(s) ==
    IF s # "" /\ Chr(s, Len(s)) \in SpaceChars
    THEN RStrip(SubSeq(s, 1, Len(s) - 1))
    ELSE s

Strip(s) == RStrip(LStrip(s))

\* str.startswith(p)
StartsWith(s, p) == Len(p) <= Len(s) /\ SubSeq(s, 1, Len(p)) = p

\* "sub in s"
Contains(sub, s) ==
    \E i \in 1..(Len(s) - Len(sub) + 1) : SubSeq(s, i, i + Len(sub) - 1) = sub

\* str.isupper(): some cased character, and no lower-case one
IsUpper(s) ==
    /\ \E i \in 1..Len(s) : Chr(s, i) \in UpperChars
    /\ \A i \in 1..Len(s) : Chr(s, i) \notin LowerChars

\* str.title(): a cased character is upper-cased when the character before
\* it is not cased, lower-cased otherwise
RECURSIVE TitleFrom(_, _)
TitleFrom(s, prevCased) ==
    IF s = "" THEN ""
    ELSE LET c == Chr(s, 1)
         IN (IF prevCased THEN LowerChar(c) ELSE UpperChar(c))
                \o TitleFrom(Tail1(s), IsCased(c))

Title(s) == TitleFrom(s, FALSE)

\* str.capitalize()
Capitalize(s) ==
    IF s = "" THEN "" ELSE UpperChar(Chr(s, 1)) \o Lower(Tail1(s))

\* str.split(sep) for a one-character separator: the sequence of the parts
RECURSIVE SplitFrom(_, _, _)
SplitFrom(s, sep, cur) ==
    IF s = "" THEN <<cur>>
    ELSE IF Chr(s, 1) = sep
         THEN <<cur>> \o SplitFrom(Tail1(s), sep, "")
         ELSE SplitFrom(Tail1(s), sep, cur \o Chr(s, 1))

Split(s, sep) == SplitFrom(s, sep, "")

\* Code-point order of the characters the model uses (ASCII)
AsciiOrder ==
    "\t\n !#'()*-./0123456789:?ABCDEFGHIJKLMNOPQRSTUVWXYZ[]_abcdefghijklmnopqrstuvwxyz"

Ord(c) == CHOOSE i \in 1..Len(AsciiOrder) : Chr(AsciiOrder, i) = c

\* a < b for Python str: lexicographic by code point
RECURSIVE StrLess(_, _)
StrLess(a, b) ==
    IF b = "" THEN FALSE
    ELSE IF a = "" THEN TRUE
    ELSE IF Chr(a, 1) = Chr(b, 1) THEN StrLess(Tail1(a), Tail1(b))
    ELSE Ord(Chr(a, 1)) < Ord(Chr(b, 1))

\* sorted(S) for a set of str
RECURSIVE Sorted(_)
Sorted(S) ==
    IF S = {} THEN <<>>
    ELSE LET least == CHOOSE x \in S : \A y \in S \ {x} : StrLess(x, y)
         IN <<least>> \o Sorted(S \ {least})

(***************************************************************************)
(* Cell values: None, a str, or a number (kept as the text str() gives)    *)
(***************************************************************************)
None == [t |-> "none"]
S(text) == [t |-> "str", v |-> text]
N(text) == [t |-> "num", v |-> text]

\* Python truth value of a cell
Truthy(cell) ==
    \/ cell.t = "str" /\ cell.v # ""
    \/ cell.t = "num" /\ cell.v \notin {"0", "0.0"}

\* str(cell)
Str(cell) == IF cell.t = "none" THEN "None" ELSE cell.v

(***************************************************************************)
(* Name cleaning                                                           *)
(***************************************************************************)
\* _fix_name_capitalization with the slice after the forced capital starting
\* one character early ("Mc" + name[2].upper() + name[2:])
MutFixNameSliceOffByOne(name) ==
    IF StartsWith(name, "Mc") /\ Len(name) > 2
    THEN "Mc" \o UpperChar(Chr(name, 3)) \o SubSeq(name, 3, Len(name))
    ELSE IF StartsWith(name, "Mac") /\ Len(name) > 3
    THEN "Mac" \o UpperChar(Chr(name, 4)) \o SubSeq(name, 4, Len(name))
    ELSE IF Contains("O'", name) \/ Contains("o'", name)
    THEN LET parts == Split(name, "'")
         IN IF Len(parts) = 2 /\ Upper(parts[1]) = "O"
            THEN "O'" \o Capitalize(parts[2])
            ELSE name
    ELSE name

\* JSONUniversalCleaningStage._fix_name_capitalization: an if/elif chain
JsonFixNameCapitalization(name) ==
    IF StartsWith(name, "Mc") /\ Len(name) > 2
    THEN "Mc" \o UpperChar(Chr(name, 3)) \o SubSeq(name, 4, Len(name))
    ELSE IF StartsWith(name, "Mac") /\ Len(name) > 3
    THEN "Mac" \o UpperChar(Chr(name, 4)) \o SubSeq(name, 5, Len(name))
    ELSE IF Contains("O'", name) \/ Contains("o'", name)
    THEN LET parts == Split(name, "'")
         IN IF Len(parts) = 2 /\ Upper(parts[1]) = "O"
            THEN "O'" \o Capitalize(parts[2])
            ELSE name
    ELSE name

\* JSONUniversalCleaningStage._clean_name
JsonCleanName(name) ==
    IF name = "" THEN ""
    ELSE LET cleaned == Strip(name)
             cased == IF IsUpper(cleaned) THEN Title(cleaned) ELSE cleaned
         IN JsonFixNameCapitalization(cased)

\* ROCLCleaningStage._fix_name_capitalization: three independent ifs
RoclFixNameCapitalization(name) ==
    LET n1 == IF StartsWith(name, "Mc") /\ Len(name) > 2
              THEN "Mc" \o UpperChar(Chr(name, 3)) \o SubSeq(name, 4, Len(name))
              ELSE name
        n2 == IF StartsWith(n1, "Mac") /\ Len(n1) > 3
              THEN "Mac" \o UpperChar(Chr(n1, 4)) \o SubSeq(n1, 5, Len(n1))
              ELSE n1
    IN IF Contains("O'", n2) \/ Contains("o'", n2)
       THEN LET parts == Split(n2, "'")
            IN IF Len(parts) = 2 /\ Upper(parts[1]) = "O"
               THEN "O'" \o Capitalize(parts[2])
               ELSE n2
       ELSE n2

\* ROCLCleaningStage._clean_name
RoclCleanName(name) ==
    IF name = "" THEN "" ELSE RoclFixNameCapitalization(Title(Strip(name)))

(***************************************************************************)
(* Inputs of the name cleaning                                             *)
(***************************************************************************)
MaxNameLen == 4
MaxCleanPasses == 2

NameAlphabet == {"M", "m", "C", "c", "A", "a", "O", "o", "'", " "}

RECURSIVE StringsUpTo(_, _)
StringsUpTo(alphabet, n) ==
    IF n = 0 THEN {""}
    ELSE LET shorter == StringsUpTo(alphabet, n - 1)
         IN shorter \cup {s \o c : s \in shorter, c \in alphabet}

NameExamples ==
    {"MCDONALD", "mcdonald", "Macdonald", "MACARTHUR", "o'brien", "O'BRIEN",
     "JANE ROE", "john doe", "  Ann Lee "}

NameInputs == StringsUpTo(NameAlphabet, MaxNameLen) \cup NameExamples

IdleName ==
    /\ cn_stage = "idle"
    /\ cn_input = ""
    /\ cn_out = <<>>

InitName ==
    /\ cn_stage \in {"json", "rocl"}
    /\ cn_input \in NameInputs
    /\ cn_out = <<>>

\* one more _clean_name call of the JSON-universal stage, on the last result
CleanNameJson ==
    /\ cn_stage = "json"
    /\ Len(cn_out) < MaxCleanPasses
    /\ cn_out' = Append(cn_out,
            JsonCleanName(IF cn_out = <<>> THEN cn_input ELSE cn_out[Len(cn_out)]))
    /\ UNCHANGED <<cn_stage, cn_input>>
    /\ UNCHANGED <<schedVars, groupVars, jsonVars, pipeVars, callVars, gridVars, roclVars, fnVars, guiVars>>

\* one more _clean_name call of the ROCL stage, on the last result
CleanNameRocl ==
    /\ cn_stage = "rocl"
    /\ Len(cn_out) < MaxCleanPasses
    /\ cn_out' = Append(cn_out,
            RoclCleanName(IF cn_out = <<>> THEN cn_input ELSE cn_out[Len(cn_out)]))
    /\ UNCHANGED <<cn_stage, cn_input>>
    /\ UNCHANGED <<schedVars, groupVars, jsonVars, pipeVars, callVars, gridVars, roclVars, fnVars, guiVars>>

NextName == CleanNameJson \/ CleanNameRocl

(***************************************************************************)
(* Python dicts keep insertion order: a dict is the sequence of its        *)
(* entries [key, val]; assigning to a key that is present keeps its place. *)
(***************************************************************************)
MapKeys(m) == {m[i].key : i \in 1..Len(m)}

MapHas(m, k) == \E i \in 1..Len(m) : m[i].key = k

MapGet(m, k) == m[CHOOSE i \in 1..Len(m) : m[i].key = k].val

MapPut(m, k, v) ==
    IF MapHas(m, k)
    THEN [i \in 1..Len(m) |-> IF m[i].key = k THEN [key |-> k, val |-> v] ELSE m[i]]
    ELSE Append(m, [key |-> k, val |-> v])

\* sep.join(parts)
RECURSIVE Join(_, _)
Join(sep, parts) ==
    IF parts = <<>> THEN ""
    ELSE IF Len(parts) = 1 THEN parts[1]
    ELSE parts[1] \o sep \o Join(sep, Tail(parts))

(***************************************************************************)
(* The schedule map: _build_teacher_map and _lookup_teacher                *)
(***************************************************************************)
\* the loop over class_code.split('/') with part.strip() left out
RECURSIVE MutPutPartsUntrimmed(_, _, _)
MutPutPartsUntrimmed(m, parts, teacher_name) ==
    IF parts = <<>> THEN m
    ELSE LET part == parts[1]
         IN MutPutPartsUntrimmed(
                IF part # "" THEN MapPut(m, part, teacher_name) ELSE m,
                Tail(parts), teacher_name)

\* the loop over class_code.split('/') of _build_teacher_map
RECURSIVE PutParts(_, _, _)
PutParts(m, parts, teacher_name) ==
    IF parts = <<>> THEN m
    ELSE LET part == Strip(parts[1])
         IN PutParts(IF part # "" THEN MapPut(m, part, teacher_name) ELSE m,
                     Tail(parts), teacher_name)

\* one iteration of "for mapping in metadata['schedule_data']"
TeacherMapWithMapping(m, mapping) ==
    LET class_code == mapping.class
        teacher_name == mapping.teacher
        m1 == MapPut(m, class_code, teacher_name)
    IN IF Contains("/", class_code)
       THEN PutParts(m1, Split(class_code, "/"), teacher_name)
       ELSE m1

\* re.search(r'(\d+)', s): the first run of digits, "" when there is none
RECURSIVE DigitRun(_)
DigitRun(s) ==
    IF s # "" /\ Chr(s, 1) \in DigitChars
    THEN Chr(s, 1) \o DigitRun(Tail1(s))
    ELSE ""

RECURSIVE FirstDigitRun(_)
FirstDigitRun(s) ==
    IF s = "" THEN ""
    ELSE IF Chr(s, 1) \in DigitChars THEN DigitRun(s)
    ELSE FirstDigitRun(Tail1(s))

\* membership in a Python list
InSeq(x, seq) == \E i \in 1..Len(seq) : seq[i] = x

\* the loop over teacher_map.items() without the "if teacher not in teachers_for_grade" test
RECURSIVE MutTeachersForGradeRepeated(_, _, _)
MutTeachersForGradeRepeated(m, grade_num, acc) ==
    IF m = <<>> THEN acc
    ELSE LET class_code == m[1].key
             teacher == m[1].val
             hit == StartsWith(class_code, grade_num \o ".") \/ class_code = grade_num
         IN MutTeachersForGradeRepeated(Tail(m), grade_num,
                IF hit THEN Append(acc, teacher) ELSE acc)

\* the loop "for class_code, teacher in teacher_map.items()" of _lookup_teacher
RECURSIVE TeachersForGrade(_, _, _)
TeachersForGrade(m, grade_num, acc) ==
    IF m = <<>> THEN acc
    ELSE LET class_code == m[1].key
             teacher == m[1].val
             hit == StartsWith(class_code, grade_num \o ".") \/ class_code = grade_num
         IN TeachersForGrade(Tail(m), grade_num,
                IF hit /\ ~InSeq(teacher, acc) THEN Append(acc, teacher) ELSE acc)

\* JSONUniversalCleaningStage._lookup_teacher
LookupTeacher(grade_level, m) ==
    IF grade_level = "" \/ m = <<>> THEN ""
    ELSE LET grade_str == Strip(grade_level)
         IN IF MapHas(m, grade_str) THEN MapGet(m, grade_str)
            ELSE LET grade_num == FirstDigitRun(grade_str)
                 IN IF grade_num = "" THEN ""
                    ELSE Join(" / ", TeachersForGrade(m, grade_num, <<>>))

(***************************************************************************)
(* Inputs of the schedule map: the mappings _extract_schedule_data emits   *)
(* have a trimmed non-empty class other than "class" and a trimmed         *)
(* non-empty teacher.                                                      *)
(***************************************************************************)
MaxScheduleRows == 3

ScheduleClasses == {"6.1", "6.2", "6", "8.3 / 8.1", "8.3", "7.1/ /6.1"}
ScheduleTeachers == {"Smith", "Jones"}

ScheduleMappings ==
    [class : ScheduleClasses, teacher : ScheduleTeachers]

LookupQueries ==
    {"6th Grade", "9th Grade", "6.1", " 6.2 ", "8.3 / 8.1", "Room 8.1b", "Grade 6",
     "", "   ", "Art"}

IdleSched ==
    /\ sched_rows = <<>>
    /\ teacher_map = <<>>
    /\ lk_done = FALSE
    /\ lk_query = ""
    /\ lk_result = ""

InitSched == IdleSched

\* _build_teacher_map consumes the next mapping of the schedule data
BuildTeacherMapRow ==
    /\ ~lk_done
    /\ Len(sched_rows) < MaxScheduleRows
    /\ \E mapping \in ScheduleMappings :
        /\ sched_rows' = Append(sched_rows, mapping)
        /\ teacher_map' = TeacherMapWithMapping(teacher_map, mapping)
    /\ UNCHANGED <<lk_done, lk_query, lk_result>>
    /\ UNCHANGED <<nameVars, groupVars, jsonVars, pipeVars, callVars, gridVars, roclVars, fnVars, guiVars>>

\* _lookup_teacher is called on the finished map
LookupTeacherCall ==
    /\ \E q \in LookupQueries :
        /\ lk_query' = q
        /\ lk_result' = LookupTeacher(q, teacher_map)
    /\ lk_done' = TRUE
    /\ UNCHANGED <<sched_rows, teacher_map>>
    /\ UNCHANGED <<nameVars, groupVars, jsonVars, pipeVars, callVars, gridVars, roclVars, fnVars, guiVars>>

NextSched == BuildTeacherMapRow \/ LookupTeacherCall

(***************************************************************************)
(* ClassSplittingStage._group_by_class                                     *)
(***************************************************************************)
GroupIndex(gs, cls) == CHOOSE i \in 1..Len(gs) : gs[i].cls = cls

HasGroup(gs, cls) == \E i \in 1..Len(gs) : gs[i].cls = cls

\* the loop body with the teacher assigned whenever the row carries one
MutGroupsWithRowLastTeacher(gs, row) ==
    IF ~Truthy(row.cls) \/ ~Truthy(row.student) THEN gs
    ELSE LET cls == Strip(Str(row.cls))
             student == Strip(Str(row.student))
             teacher == IF Truthy(row.teacher) THEN Strip(Str(row.teacher)) ELSE ""
             gs1 == IF HasGroup(gs, cls) THEN gs
                    ELSE Append(gs, [cls |-> cls, teacher |-> teacher, students |-> {}])
             k == GroupIndex(gs1, cls)
             gs2 == IF teacher # ""
                    THEN [gs1 EXCEPT ![k].teacher = teacher]
                    ELSE gs1
         IN [gs2 EXCEPT ![k].students = @ \cup {student}]

\* the loop body with the student added as str(student_val), not trimmed
MutGroupsWithRowUntrimmed(gs, row) ==
    IF ~Truthy(row.cls) \/ ~Truthy(row.student) THEN gs
    ELSE LET cls == Strip(Str(row.cls))
             student == Str(row.student)
             teacher == IF Truthy(row.teacher) THEN Strip(Str(row.teacher)) ELSE ""
             gs1 == IF HasGroup(gs, cls) THEN gs
                    ELSE Append(gs, [cls |-> cls, teacher |-> teacher, students |-> {}])
             k == GroupIndex(gs1, cls)
             gs2 == IF teacher # "" /\ gs1[k].teacher = ""
                    THEN [gs1 EXCEPT ![k].teacher = teacher]
                    ELSE gs1
         IN [gs2 EXCEPT ![k].students = @ \cup {student}]

\* the body of "for row in worksheet.iter_rows(min_row=2, values_only=True)"
GroupsWithRow(gs, row) ==
    IF ~Truthy(row.cls) \/ ~Truthy(row.student) THEN gs
    ELSE LET cls == Strip(Str(row.cls))
             student == Strip(Str(row.student))
             teacher == IF Truthy(row.teacher) THEN Strip(Str(row.teacher)) ELSE ""
             gs1 == IF HasGroup(gs, cls) THEN gs
                    ELSE Append(gs, [cls |-> cls, teacher |-> teacher, students |-> {}])
             k == GroupIndex(gs1, cls)
             gs2 == IF teacher # "" /\ gs1[k].teacher = ""
                    THEN [gs1 EXCEPT ![k].teacher = teacher]
                    ELSE gs1
         IN [gs2 EXCEPT ![k].students = @ \cup {student}]

\* "for cls in groups: groups[cls]['students'] = sorted(...)"
GroupsSorted(gs) ==
    [i \in 1..Len(gs) |->
        [cls |-> gs[i].cls, teacher |-> gs[i].teacher,
         students |-> Sorted(gs[i].students)]]

MaxGroupRows == 2

\* the (class, student, teacher) cells of the rows the worksheet may hold
GroupClassCells == {S("6.1"), S(" 6.1 "), S("7.2"), S("  "), None}
GroupStudentCells == {S("Ann Lee"), S(" Ann Lee"), S("ANN LEE"), S("  "), None}
GroupTeacherCells == {S("Ms A"), S("Ms B"), S(" "), None}

GroupRows ==
    [cls : GroupClassCells, student : GroupStudentCells, teacher : GroupTeacherCells]

IdleGroup ==
    /\ grp_pc = "idle"
    /\ grp_rows = <<>>
    /\ groups = <<>>
    /\ grp_result = <<>>

InitGroup ==
    /\ grp_pc = "loop"
    /\ grp_rows = <<>>
    /\ groups = <<>>
    /\ grp_result = <<>>

\* one iteration of the loop over the worksheet's rows
GroupRow ==
    /\ grp_pc = "loop"
    /\ Len(grp_rows) < MaxGroupRows
    /\ \E row \in GroupRows :
        /\ grp_rows' = Append(grp_rows, row)
        /\ groups' = GroupsWithRow(groups, row)
    /\ UNCHANGED <<grp_pc, grp_result>>
    /\ UNCHANGED <<nameVars, schedVars, jsonVars, pipeVars, callVars, gridVars, roclVars, fnVars, guiVars>>

\* the rows are exhausted: the students are sorted and the groups returned
GroupReturn ==
    /\ grp_pc = "loop"
    /\ grp_pc' = "done"
    /\ grp_result' = GroupsSorted(groups)
    /\ UNCHANGED <<grp_rows, groups>>
    /\ UNCHANGED <<nameVars, schedVars, jsonVars, pipeVars, callVars, gridVars, roclVars, fnVars, guiVars>>

NextGroup == GroupRow \/ GroupReturn

(***************************************************************************)
(* Worksheets.  A worksheet is [name, rows]: rows is the sequence of its   *)
(* rows 1..max_row, each the sequence of the cells of columns 1..          *)
(* max_column.  Column and row numbers are 1-based here (the code's        *)
(* column indices are 0-based).                                            *)
(***************************************************************************)
MaxRowOf(ws) == Len(ws.rows)

WidthOf(ws) == Len(ws.rows[1])

\* iter_rows(min_row=i, max_row=i, values_only=True): a row past max_row
\* is a row of empty cells
RowAt(ws, i) ==
    IF i <= Len(ws.rows) THEN ws.rows[i] ELSE [j \in 1..WidthOf(ws) |-> None]

Min(a, b) == IF a <= b THEN a ELSE b

\* the numbers of a set in increasing order
RECURSIVE Ascending(_)
Ascending(places) ==
    IF places = {} THEN <<>>
    ELSE LET least == CHOOSE p \in places : \A x \in places : p <= x
         IN <<least>> \o Ascending(places \ {least})

\* str(i) for a column number
IntStr(i) == Chr("0123456789", i + 1)

\* any(cell for cell in row)
AnyTruthy(row) == \E j \in 1..Len(row) : Truthy(row[j])

(***************************************************************************)
(* JSONUniversalCleaningStage: sheet classification and extraction         *)
(***************************************************************************)
SkipKeywords ==
    {"instructions", "notes", "readme", "info", "help", "template", "example",
     "summary", "cover"}

\* _should_skip_sheet with the keywords compared to the name as written
MutShouldSkipSheetCaseSensitive(sheet_name) ==
    \E keyword \in SkipKeywords : Contains(keyword, Strip(sheet_name))

\* _should_skip_sheet
ShouldSkipSheet(sheet_name) ==
    LET sheet_lower == Strip(Lower(sheet_name))
    IN \E keyword \in SkipKeywords : Contains(keyword, sheet_lower)

HeaderScanRows == 10
ShortSheetRows == 20

\* _is_schedule_sheet
IsScheduleSheet(ws) ==
    LET scanned == 1..Min(HeaderScanRows, MaxRowOf(ws))
        headers_found ==
            {Strip(Lower(Str(ws.rows[i][j]))) :
                <<i, j>> \in {p \in scanned \X (1..WidthOf(ws)) :
                                Truthy(ws.rows[p[1]][p[2]])}}
        has_class_col == \E h \in headers_found : Contains("class", h)
        has_teacher_col == \E h \in headers_found : Contains("teacher", h)
        has_time_col ==
            \E h \in headers_found :
                \E word \in {"time", "schedule", "transition", "photo"} :
                    Contains(word, h)
        is_short == MaxRowOf(ws) < ShortSheetRows
    IN has_class_col /\ has_teacher_col /\ (has_time_col \/ is_short)

\* what an extraction returns when it finds nothing
NoSheetData ==
    [headers |-> <<>>, rows |-> <<>>, is_schedule |-> FALSE,
     schedule_data |-> <<>>, header_row |-> 0, data_start_row |-> 1,
     class_from_title |-> "", teacher_from_title |-> ""]

\* _extract_schedule_data
ExtractScheduleData(ws) ==
    LET RowText(row) ==
            [j \in 1..Len(row) |->
                IF Truthy(row[j]) THEN Strip(Lower(Str(row[j]))) ELSE ""]
        IsHeader(i) ==
            /\ InSeq("class", RowText(RowAt(ws, i)))
            /\ InSeq("teacher", RowText(RowAt(ws, i)))
        found == Ascending({i \in 1..HeaderScanRows : IsHeader(i)})
    IN IF found = <<>> THEN NoSheetData
       ELSE
        LET header_row_idx == found[1]
            hrow == RowAt(ws, header_row_idx)
            headers == [j \in 1..Len(hrow) |->
                            IF Truthy(hrow[j]) THEN Strip(Str(hrow[j])) ELSE ""]
            HasClass(j) == Contains("class", Lower(headers[j]))
            HasTeacher(j) == Contains("teacher", Lower(headers[j]))
            class_idx == Ascending({i \in 1..Len(headers) : HasClass(i)})[1]
            teacher_idx == Ascending({i \in 1..Len(headers) : HasTeacher(i)})[1]
            IsMapping(i) ==
                /\ i > header_row_idx
                /\ Truthy(ws.rows[i][class_idx])
                /\ Truthy(ws.rows[i][teacher_idx])
                /\ Strip(Str(ws.rows[i][class_idx])) # ""
                /\ Strip(Str(ws.rows[i][teacher_idx])) # ""
                /\ Lower(Strip(Str(ws.rows[i][class_idx]))) # "class"
            kept == Ascending({i \in 1..MaxRowOf(ws) : IsMapping(i)})
        IN [headers |-> headers, rows |-> <<>>, is_schedule |-> TRUE,
            schedule_data |->
                [k \in 1..Len(kept) |->
                    [class |-> Strip(Str(ws.rows[kept[k]][class_idx])),
                     teacher |-> Strip(Str(ws.rows[kept[k]][teacher_idx]))]],
            header_row |-> header_row_idx,
            data_start_row |-> header_row_idx + 1,
            class_from_title |-> "", teacher_from_title |-> ""]

GridIndicatorColumns == 6
GridLabelRows == 10

\* _is_grid_format
IsGridFormat(ws) ==
    LET first_row == ws.rows[1]
        IsIndicator(j) ==
            /\ j >= 2
            /\ Truthy(first_row[j])
            /\ LET cell_str == Lower(Str(first_row[j]))
               IN \/ Contains("class", cell_str)
                  \/ Contains("grade", cell_str)
                  \/ \E level \in {"3k", "4k", "prek", "pre-k", "k"} :
                        Contains(level, cell_str)
        class_indicators ==
            Cardinality({j \in 1..Min(GridIndicatorColumns, Len(first_row)) :
                            IsIndicator(j)})
        labelled == {i \in 2..(Min(GridLabelRows, MaxRowOf(ws) + 1) - 1) :
                        Truthy(ws.rows[i][1])}
        Label(i) == Strip(Lower(Str(ws.rows[i][1])))
        has_teacher_row == \E i \in labelled : Contains("teacher", Label(i))
        has_student_rows ==
            Cardinality({i \in labelled : Contains("student", Label(i))}) >= 3
    IN class_indicators >= 2 \/ (has_teacher_row /\ has_student_rows)

\* teacher_data[class_name].append(teacher), creating the list when absent
ListMapAppend(m, k, v) ==
    IF MapHas(m, k)
    THEN [i \in 1..Len(m) |->
            IF m[i].key = k THEN [key |-> k, val |-> Append(m[i].val, v)] ELSE m[i]]
    ELSE Append(m, [key |-> k, val |-> <<v>>])

\* the loop over the cells of a teacher row, from column col on
RECURSIVE GridTeacherCells(_, _, _, _)
GridTeacherCells(teacher_data, row, class_names, col) ==
    IF col > Len(row) THEN teacher_data
    ELSE GridTeacherCells(
            IF Truthy(row[col]) /\ col <= Len(class_names)
            THEN ListMapAppend(teacher_data, class_names[col], Strip(Str(row[col])))
            ELSE teacher_data,
            row, class_names, col + 1)

\* the loop over all_rows[1:] collecting the teacher rows, from row i on
RECURSIVE GridTeacherData(_, _, _, _)
GridTeacherData(teacher_data, rows, class_names, i) ==
    IF i > Len(rows) THEN teacher_data
    ELSE LET row_label ==
                IF Truthy(rows[i][1]) THEN Strip(Lower(Str(rows[i][1]))) ELSE ""
         IN GridTeacherData(
                IF Contains("teacher", row_label)
                THEN GridTeacherCells(teacher_data, rows[i], class_names, 2)
                ELSE teacher_data,
                rows, class_names, i + 1)

\* the transformed rows of one student row, from column col on
RECURSIVE GridStudentCells(_, _, _, _)
GridStudentCells(row, class_names, teacher_data, col) ==
    IF col > Len(row) THEN <<>>
    ELSE LET rest == GridStudentCells(row, class_names, teacher_data, col + 1)
             student_name == Strip(Str(row[col]))
             class_name == class_names[col]
             teachers ==
                Join(" / ", IF MapHas(teacher_data, class_name)
                            THEN MapGet(teacher_data, class_name) ELSE <<>>)
         IN IF ~Truthy(row[col]) \/ col > Len(class_names) \/ student_name = ""
            THEN rest
            ELSE << <<S(teachers), S(student_name), S(""), S(class_name)>> >> \o rest

\* the transformed rows of the student rows, from the i-th on
RECURSIVE GridStudentRows(_, _, _, _)
GridStudentRows(student_rows, class_names, teacher_data, i) ==
    IF i > Len(student_rows) THEN <<>>
    ELSE GridStudentCells(student_rows[i], class_names, teacher_data, 2)
            \o GridStudentRows(student_rows, class_names, teacher_data, i + 1)

GridMinRows == 3

\* _extract_grid_format_data
ExtractGridFormatData(ws) ==
    LET all_rows == ws.rows
    IN IF Len(all_rows) < GridMinRows THEN NoSheetData
       ELSE
        LET header_row == all_rows[1]
            class_names ==
                [j \in 1..Len(header_row) |->
                    IF Truthy(header_row[j]) THEN Strip(Str(header_row[j]))
                    ELSE "Column_" \o IntStr(j - 1)]
            RowLabel(i) ==
                IF Truthy(all_rows[i][1]) THEN Strip(Lower(Str(all_rows[i][1])))
                ELSE ""
            teacher_data == GridTeacherData(<<>>, all_rows, class_names, 2)
            IsStudentRow(i) ==
                /\ i >= 2
                /\ ~Contains("teacher", RowLabel(i))
                /\ Contains("student", RowLabel(i))
            places == Ascending({i \in 1..Len(all_rows) : IsStudentRow(i)})
            student_rows == [k \in 1..Len(places) |-> all_rows[places[k]]]
        IN [headers |-> <<"Teacher", "Student Name", "Student First", "Class">>,
            rows |-> GridStudentRows(student_rows, class_names, teacher_data, 1),
            is_schedule |-> FALSE, schedule_data |-> <<>>,
            header_row |-> 1, data_start_row |-> 2,
            class_from_title |-> "", teacher_from_title |-> ""]

\* _looks_like_header_row
LooksLikeHeaderRow(row) ==
    LET non_empty_count ==
            Cardinality({j \in 1..Len(row) :
                            row[j] # None /\ Strip(Str(row[j])) # ""})
        first_cell == IF Truthy(row[1]) THEN Upper(Strip(Str(row[1]))) ELSE ""
        title_patterns == {"CLASS LIST", "ROSTER", "STUDENT LIST", "SITE:", "YEAR:"}
        total_count == Cardinality({j \in 1..Len(row) : row[j] # None})
        text_count ==
            Cardinality({j \in 1..Len(row) :
                            row[j].t = "str" /\ Len(Strip(Str(row[j]))) > 0})
    IN /\ row # <<>>
       /\ ~(non_empty_count < 2)
       /\ ~(\E pattern \in title_patterns : StartsWith(first_cell, pattern))
       /\ total_count >= 2
       /\ text_count * 10 >= 7 * total_count

\* _clean_header
CleanHeader(header) == IF header = None THEN "" ELSE Strip(Str(header))

\* _clean_cell_value
CleanCellValue(cell) ==
    IF cell = None THEN S("")
    ELSE IF cell.t = "str" THEN S(Strip(cell.v))
    ELSE cell

\* text.split()[0] of a text that does not start with white space
RECURSIVE FirstToken(_)
FirstToken(s) ==
    IF s = "" \/ Chr(s, 1) \in SpaceChars THEN ""
    ELSE Chr(s, 1) \o FirstToken(Tail1(s))

\* _is_metadata_row
IsMetadataRow(text) ==
    LET text_lower == Strip(Lower(text))
        metadata_patterns ==
            {"teacher:", "advisor:", "class list", "site:", "year:",
             "ed director", "family worker", "total", "count",
             IF StartsWith(text_lower, "class")
             THEN "class " \o FirstToken(text_lower) ELSE ""}
    IN \/ \E pattern \in metadata_patterns :
            pattern # "" /\ StartsWith(text_lower, pattern)
       \/ Strip(text) \in {"#", ""}

(***************************************************************************)
(* The three regular expressions of _extract_metadata_from_title_rows,     *)
(* searched with re.IGNORECASE.  A search result is [ok, g1, g2].          *)
(***************************************************************************)
NoMatch == [ok |-> FALSE, g1 |-> "", g2 |-> ""]

\* the literal lit at place p of s, letter case ignored
LitAt(s, p, lit) ==
    p + Len(lit) - 1 <= Len(s) /\ Lower(SubSeq(s, p, p + Len(lit) - 1)) = lit

\* the place after the longest run of \s that starts at p
RECURSIVE SkipSpace(_, _)
SkipSpace(s, p) ==
    IF p <= Len(s) /\ Chr(s, p) \in SpaceChars THEN SkipSpace(s, p + 1) ELSE p

\* the place after the longest run of \d that starts at p
RECURSIVE SkipDigits(_, _)
SkipDigits(s, p) ==
    IF p <= Len(s) /\ Chr(s, p) \in DigitChars THEN SkipDigits(s, p + 1) ELSE p

\* the place of the first ch at or after p, Len(s) + 1 when there is none
RECURSIVE Find(_, _, _)
Find(s, ch, p) ==
    IF p > Len(s) \/ Chr(s, p) = ch THEN p ELSE Find(s, ch, p + 1)

\* \s*(.+) at place p: the place where the group starts, 0 for no match
GroupStart(s, p) ==
    LET q == SkipSpace(s, p)
        given_back == {r \in p..(q - 1) : Chr(s, r) # "\n"}
    IN IF q <= Len(s) THEN q
       ELSE IF given_back # {} THEN CHOOSE r \in given_back : \A x \in given_back : x <= r
       ELSE 0

\* the text (.+) takes from place q: up to the end of the line
DotPlus(s, q) == SubSeq(s, q, Find(s, "\n", q) - 1)

\* Teachers?<one of seps> at place p: the place after it, 0 for no match
TeacherLabelEnd(s, p, seps) ==
    IF ~LitAt(s, p, "teacher") THEN 0
    ELSE LET a == p + 7
             b == IF LitAt(s, a, "s") THEN a + 1 ELSE a
         IN IF b <= Len(s) /\ Chr(s, b) \in seps THEN b + 1 ELSE 0

\* Class\s+(\d+[^/]*)/\s*Teachers?:\s*(.+) matched at place p
ClassTeacherAt(s, p) ==
    LET a == p + 5
        d == SkipSpace(s, a)
        e == SkipDigits(s, d)
        slash == Find(s, "/", e)
        t == TeacherLabelEnd(s, SkipSpace(s, slash + 1), {":"})
        g == IF t = 0 THEN 0 ELSE GroupStart(s, t)
    IN IF LitAt(s, p, "class") /\ d > a /\ e > d /\ slash <= Len(s) /\ g # 0
       THEN [ok |-> TRUE, g1 |-> SubSeq(s, d, slash - 1), g2 |-> DotPlus(s, g)]
       ELSE NoMatch

\* Teachers?[:\-]\s*(.+) matched at place p
TeacherAt(s, p) ==
    LET t == TeacherLabelEnd(s, p, {":", "-"})
        g == IF t = 0 THEN 0 ELSE GroupStart(s, t)
    IN IF g # 0 THEN [ok |-> TRUE, g1 |-> DotPlus(s, g), g2 |-> ""] ELSE NoMatch

\* Class[:\-]\s*(.+) matched at place p
ClassAt(s, p) ==
    LET a == p + 5
        g == IF LitAt(s, p, "class") /\ a <= Len(s) /\ Chr(s, a) \in {":", "-"}
             THEN GroupStart(s, a + 1) ELSE 0
    IN IF g # 0 THEN [ok |-> TRUE, g1 |-> DotPlus(s, g), g2 |-> ""] ELSE NoMatch

\* re.search: the match at the leftmost place that has one; hits[p] is the
\* match at place p
Search(hits) ==
    LET places == {p \in DOMAIN hits : hits[p].ok}
    IN IF places = {} THEN NoMatch
       ELSE hits[CHOOSE p \in places : \A x \in places : p <= x]

TitleScanRows == 10

\* the loop of _extract_metadata_from_title_rows with a value, once set,
\* kept against the later rows
RECURSIVE MutTitleScanFirstWins(_, _, _)
MutTitleScanFirstWins(ws, row_idx, found) ==
    IF row_idx >= TitleScanRows THEN found
    ELSE
     LET row == RowAt(ws, row_idx + 1)
         text == Strip(Str(row[1]))
         both == Search([p \in 1..Len(text) |-> ClassTeacherAt(text, p)])
         teacher == Search([p \in 1..Len(text) |-> TeacherAt(text, p)])
         class == Search([p \in 1..Len(text) |-> ClassAt(text, p)])
         class_val == IF found.class_val # "" THEN found.class_val
                      ELSE IF both.ok THEN Strip(both.g1)
                      ELSE IF ~teacher.ok /\ class.ok THEN Strip(class.g1)
                      ELSE ""
         teacher_val == IF found.teacher_val # "" THEN found.teacher_val
                        ELSE IF both.ok THEN Strip(both.g2)
                        ELSE IF teacher.ok THEN Strip(teacher.g1)
                        ELSE ""
     IN MutTitleScanFirstWins(ws, row_idx + 1,
            IF ~Truthy(row[1]) THEN found
            ELSE [class_val |-> class_val, teacher_val |-> teacher_val])

\* the loop of _extract_metadata_from_title_rows from row row_idx + 1 on;
\* found is [class_val, teacher_val], with "" for None (every reader of
\* the two values treats None and "" alike)
RECURSIVE TitleScan(_, _, _)
TitleScan(ws, row_idx, found) ==
    IF row_idx >= TitleScanRows THEN found
    ELSE
     LET row == RowAt(ws, row_idx + 1)
         text == Strip(Str(row[1]))
         both == Search([p \in 1..Len(text) |-> ClassTeacherAt(text, p)])
         teacher == Search([p \in 1..Len(text) |-> TeacherAt(text, p)])
         class == Search([p \in 1..Len(text) |-> ClassAt(text, p)])
     IN TitleScan(ws, row_idx + 1,
            IF ~Truthy(row[1]) THEN found
            ELSE IF both.ok
                 THEN [class_val |-> Strip(both.g1), teacher_val |-> Strip(both.g2)]
            ELSE IF teacher.ok
                 THEN [found EXCEPT !.teacher_val = Strip(teacher.g1)]
            ELSE IF class.ok
                 THEN [found EXCEPT !.class_val = Strip(class.g1)]
            ELSE found)

\* _extract_metadata_from_title_rows
ExtractMetadataFromTitleRows(ws) ==
    TitleScan(ws, 0, [class_val |-> "", teacher_val |-> ""])

FallbackHeaderRows == 20

\* the part of _extract_sheet_data after the two format tests
ExtractPlainData(ws) ==
    LET title == ExtractMetadataFromTitleRows(ws)
        IsHeader(i) == LooksLikeHeaderRow(RowAt(ws, i))
        header_rows == Ascending({i \in 1..HeaderScanRows : IsHeader(i)})
        IsNonEmpty(i) == AnyTruthy(RowAt(ws, i))
        non_empty_rows == Ascending({i \in 1..FallbackHeaderRows : IsNonEmpty(i)})
        header_row_idx ==
            IF header_rows # <<>> THEN header_rows[1]
            ELSE IF non_empty_rows # <<>> THEN non_empty_rows[1]
            ELSE 0
        hrow == RowAt(ws, header_row_idx)
        headers ==
            IF header_rows # <<>> THEN [j \in 1..Len(hrow) |-> CleanHeader(hrow[j])]
            ELSE IF non_empty_rows # <<>>
                 THEN [j \in 1..Len(hrow) |-> "Column_" \o IntStr(j - 1)]
            ELSE <<>>
        start_row == IF header_row_idx # 0 THEN header_row_idx + 1 ELSE 1
        IsData(i) ==
            /\ i >= start_row
            /\ AnyTruthy(ws.rows[i])
            /\ ~(Truthy(ws.rows[i][1]) /\ IsMetadataRow(Str(ws.rows[i][1])))
        kept == Ascending({i \in 1..MaxRowOf(ws) : IsData(i)})
    IN [headers |-> headers,
        rows |-> [k \in 1..Len(kept) |->
                    [j \in 1..WidthOf(ws) |-> CleanCellValue(ws.rows[kept[k]][j])]],
        is_schedule |-> FALSE, schedule_data |-> <<>>,
        header_row |-> header_row_idx, data_start_row |-> start_row,
        class_from_title |-> title.class_val,
        teacher_from_title |-> title.teacher_val]

\* _extract_sheet_data with the grid test before the schedule test
MutExtractSheetDataGridFirst(ws) ==
    IF IsGridFormat(ws) THEN ExtractGridFormatData(ws)
    ELSE IF IsScheduleSheet(ws) THEN ExtractScheduleData(ws)
    ELSE ExtractPlainData(ws)

\* _extract_sheet_data
ExtractSheetData(ws) ==
    IF IsScheduleSheet(ws) THEN ExtractScheduleData(ws)
    ELSE IF IsGridFormat(ws) THEN ExtractGridFormatData(ws)
    ELSE ExtractPlainData(ws)

(***************************************************************************)
(* JSONUniversalCleaningStage: field matching and normalized records       *)
(***************************************************************************)
\* field_patterns of _normalize_and_match_fields
FieldPatterns ==
    [student_name |-> <<"name", "student", "student name", "full name",
                        "student full name", "stu name">>,
     first_name |-> <<"first name", "fname", "first", "given name",
                      "student first name", "given">>,
     last_name |-> <<"last name", "lname", "last", "surname",
                     "student last name", "family name">>,
     class_id |-> <<"class", "class id", "class section", "section",
                    "class section id", "ocl", "grade", "homeroom">>,
     teacher |-> <<"teacher", "teacher name", "homeroom teacher",
                   "instructor", "tchr", "homeroom">>,
     grade |-> <<"grade", "grade level", "year", "level">>,
     advisor |-> <<"advisor", "adviser", "adv">>]

\* priority_order of _match_headers_to_fields
PriorityOrder ==
    <<"first_name", "last_name", "student_name", "class_id", "teacher",
      "grade", "advisor">>

\* _header_matches_patterns
HeaderMatchesPatterns(header, patterns) ==
    /\ header # ""
    /\ LET header_clean == Strip(Lower(header))
       IN \/ \E k \in 1..Len(patterns) : header_clean = Lower(patterns[k])
          \/ \E k \in 1..Len(patterns) : Contains(Lower(patterns[k]), header_clean)

\* the loop over priority_order from its k-th field on; field_indices maps
\* a field to the column it took, 0 for a field that took none
RECURSIVE MatchFieldsFrom(_, _, _)
MatchFieldsFrom(headers, k, field_indices) ==
    IF k > Len(PriorityOrder) THEN field_indices
    ELSE
     LET field_name == PriorityOrder[k]
         used == {field_indices[f] : f \in DOMAIN field_indices} \ {0}
         Free(idx) ==
            /\ idx \notin used
            /\ HeaderMatchesPatterns(headers[idx], FieldPatterns[field_name])
         hits == Ascending({i \in 1..Len(headers) : Free(i)})
     IN MatchFieldsFrom(headers, k + 1,
            IF hits = <<>> THEN field_indices
            ELSE [field_indices EXCEPT ![field_name] = hits[1]])

\* _match_headers_to_fields
MatchHeadersToFields(headers) ==
    MatchFieldsFrom(headers, 1, [f \in DOMAIN FieldPatterns |-> 0])

\* _clean_text
CleanText(text) == IF ~Truthy(text) THEN "" ELSE Strip(Str(text))

\* get_field of _create_normalized_record
GetField(row, field_indices, field_name) ==
    LET idx == field_indices[field_name]
    IN IF idx # 0 /\ idx <= Len(row) THEN CleanText(row[idx]) ELSE ""

\* the name _create_normalized_record settles on before it cleans it
RawStudentName(row, field_indices) ==
    LET student_name == GetField(row, field_indices, "student_name")
        first_name == GetField(row, field_indices, "first_name")
        last_name == GetField(row, field_indices, "last_name")
    IN IF student_name # "" THEN student_name
       ELSE IF first_name # "" \/ last_name # ""
            THEN Strip(first_name \o " " \o last_name)
       ELSE ""

\* the record dict with the title-row defaults taken before the column
\* values
MutRecordOfTitleFirst(row, field_indices, sheet_name, default_class, default_teacher) ==
    LET class_field == GetField(row, field_indices, "class_id")
        teacher_field == GetField(row, field_indices, "teacher")
    IN [student_name |-> JsonCleanName(RawStudentName(row, field_indices)),
        class_id |-> IF default_class # sheet_name THEN default_class
                     ELSE IF class_field # "" THEN class_field
                     ELSE sheet_name,
        teacher |-> IF default_teacher # "" THEN default_teacher ELSE teacher_field,
        grade |-> GetField(row, field_indices, "grade"),
        advisor |-> GetField(row, field_indices, "advisor"),
        source_sheet |-> sheet_name]

\* the record dict of _create_normalized_record
RecordOf(row, field_indices, sheet_name, default_class, default_teacher) ==
    LET class_field == GetField(row, field_indices, "class_id")
        teacher_field == GetField(row, field_indices, "teacher")
    IN [student_name |-> JsonCleanName(RawStudentName(row, field_indices)),
        class_id |-> IF class_field # "" THEN class_field
                     ELSE IF default_class # "" THEN default_class
                     ELSE sheet_name,
        teacher |-> IF teacher_field # "" THEN teacher_field ELSE default_teacher,
        grade |-> GetField(row, field_indices, "grade"),
        advisor |-> GetField(row, field_indices, "advisor"),
        source_sheet |-> sheet_name]

\* _create_normalized_record: <<>> for None, else the one record
CreateNormalizedRecord(row, field_indices, sheet_name, default_class, default_teacher) ==
    IF RawStudentName(row, field_indices) = "" THEN <<>>
    ELSE <<RecordOf(row, field_indices, sheet_name, default_class,
                    default_teacher)>>

\* the teacher fill-in of the row loop of _normalize_and_match_fields
WithScheduleTeacher(record, tmap) ==
    IF (record.teacher = "" \/ Strip(record.teacher) = "") /\ tmap # <<>>
    THEN LET grade_or_class ==
                IF record.grade # "" THEN record.grade ELSE record.class_id
         IN [record EXCEPT !.teacher = LookupTeacher(grade_or_class, tmap)]
    ELSE record

\* the body of the row loop with neither test for a name: every row
\* yields a record
MutNormalizedRowKeepNameless(row, field_indices, sheet_name, default_class, default_teacher, tmap) ==
    <<WithScheduleTeacher(
        RecordOf(row, field_indices, sheet_name, default_class, default_teacher),
        tmap)>>

\* the body of the row loop: what one row appends to normalized_records
NormalizedRow(row, field_indices, sheet_name, default_class, default_teacher, tmap) ==
    LET record == CreateNormalizedRecord(row, field_indices, sheet_name,
                                         default_class, default_teacher)
    IN IF record # <<>> /\ record[1].student_name # ""
       THEN <<WithScheduleTeacher(record[1], tmap)>>
       ELSE <<>>

\* the row loop from the i-th row on
RECURSIVE NormalizedRows(_, _, _, _, _, _, _)
NormalizedRows(rows, i, field_indices, sheet_name, default_class, default_teacher, tmap) ==
    IF i > Len(rows) THEN <<>>
    ELSE NormalizedRow(rows[i], field_indices, sheet_name, default_class,
                       default_teacher, tmap)
         \o NormalizedRows(rows, i + 1, field_indices, sheet_name,
                           default_class, default_teacher, tmap)

\* one iteration of the sheet loop of _normalize_and_match_fields
NormalizedSheet(sheet_name, sheet_data, tmap) ==
    IF sheet_data.is_schedule THEN <<>>
    ELSE NormalizedRows(sheet_data.rows, 1,
            MatchHeadersToFields(sheet_data.headers), sheet_name,
            IF sheet_data.class_from_title # "" THEN sheet_data.class_from_title
            ELSE sheet_name,
            sheet_data.teacher_from_title, tmap)

TeacherProbeRows == 10

\* _check_for_teacher_column
CheckForTeacherColumn(raw) ==
    \E s \in 1..Len(raw) :
        LET sheet_data == raw[s].val
            headers == sheet_data.headers
            rows == sheet_data.rows
            IsTeacher(idx) == Contains("teacher", Strip(Lower(headers[idx])))
            found == Ascending({i \in 1..Len(headers) : IsTeacher(i)})
        IN /\ ~sheet_data.is_schedule
           /\ headers # <<>> /\ rows # <<>>
           /\ found # <<>>
           /\ \E r \in 1..Min(TeacherProbeRows, Len(rows)) :
                /\ found[1] <= Len(rows[r])
                /\ Truthy(rows[r][found[1]])
                /\ Strip(Str(rows[r][found[1]])) # ""

\* the loop over one sheet's schedule_data
RECURSIVE TeacherMapWithMappings(_, _)
TeacherMapWithMappings(m, mappings) ==
    IF mappings = <<>> THEN m
    ELSE TeacherMapWithMappings(TeacherMapWithMapping(m, mappings[1]),
                                Tail(mappings))

\* the sheet loop of _build_teacher_map from the s-th sheet on
RECURSIVE TeacherMapFrom(_, _, _)
TeacherMapFrom(m, raw, s) ==
    IF s > Len(raw) THEN m
    ELSE TeacherMapFrom(
            IF raw[s].val.is_schedule /\ raw[s].val.schedule_data # <<>>
            THEN TeacherMapWithMappings(m, raw[s].val.schedule_data)
            ELSE m,
            raw, s + 1)

\* _build_teacher_map
BuildTeacherMap(raw) == TeacherMapFrom(<<>>, raw, 1)

\* the rows _create_standardized_workbook appends to its worksheet
StandardizedRows(records) ==
    << <<"Teacher", "Student Name", "Class">> >> \o
    [k \in 1..Len(records) |->
        <<records[k].teacher, records[k].student_name, records[k].class_id>>]

(***************************************************************************)
(* Inputs of the JSON-first stage: a workbook is a main sheet alone, or a  *)
(* main sheet and a companion sheet in either order.  A main sheet has a   *)
(* name, a block of top rows, up to MaxDataRows data rows, and is either   *)
(* left short or padded with empty rows up to ShortSheetRows rows.         *)
(***************************************************************************)
MaxDataRows == 2

MainSheetNames == {"Roster", "Final NOTES"}

TopBlocks ==
    { << <<S("Name"), S("Class"), S("Teacher")>> >>,
      << <<None, S("Class A"), S("Class B")>>,
         <<S("Teacher"), S("Ms X"), S("Ms Y")>> >>,
      << <<S("Student Name"), S("Grade"), None>> >>,
      << <<S("Class 101/ Teacher: Ms Falleen"), None, None>>,
         <<S("First Name"), S("Last Name"), None>> >> }

DataRowPool ==
    { <<S("john doe"), S("6.1"), S("MS SMITH")>>,
      <<S("JANE ROE"), S("6.1"), None>>,
      <<S("Student 1"), S("Tom"), S("Amy")>>,
      <<None, S("6.2"), S("Ms Lee")>>,
      <<S("  "), N("6"), None>> }

RECURSIVE RowSeqs(_)
RowSeqs(n) ==
    IF n = 0 THEN {<<>>}
    ELSE RowSeqs(n - 1) \cup
         {Append(rs, r) : rs \in {x \in RowSeqs(n - 1) : Len(x) = n - 1},
                          r \in DataRowPool}

EmptyRow == <<None, None, None>>

\* rows followed by empty rows up to ShortSheetRows rows
Padded(rows) ==
    rows \o [i \in 1..(ShortSheetRows - Len(rows)) |-> EmptyRow]

\* a title row that names a class and a teacher above a header row with a
\* class and a teacher column
TitledTopBlock ==
    << <<S("Class 101/ Teacher: Ms Falleen"), None, None>>,
       <<S("Name"), S("Class"), S("Teacher")>> >>

MainSheets ==
    {[name |-> n, rows |-> IF long THEN Padded(top \o body) ELSE top \o body] :
        n \in MainSheetNames, top \in TopBlocks, body \in RowSeqs(MaxDataRows),
        long \in BOOLEAN}
    \cup {[name |-> "Roster", rows |-> Padded(TitledTopBlock \o body)] :
             body \in RowSeqs(MaxDataRows)}

ScheduleRows ==
    << <<S("Class"), S("Teacher"), None>>,
       <<S("6.1 / 6.2"), S("Ms Hidden"), None>>,
       <<S("6"), S("Mr Grey"), None>> >>

CompanionSheets ==
    { [name |-> "Schedule", rows |-> ScheduleRows],
      [name |-> "Class Info", rows |-> ScheduleRows],
      [name |-> "INSTRUCTIONS",
       rows |-> Padded(<< <<S("Name"), S("Class"), S("Teacher")>>,
                          <<S("Zed Zee"), S("9.9"), S("Ms Hidden")>> >>)] }

Workbooks ==
    {<<m>> : m \in MainSheets}
        \cup {<<m, c>> : m \in MainSheets, c \in CompanionSheets}
        \cup {<<c, m>> : m \in MainSheets, c \in CompanionSheets}

\* the data dict before process() has returned
NoOutput == [workbook |-> "input", rows |-> <<>>, cleaned_record_count |-> -1]

IdleJson ==
    /\ workbook = <<>>
    /\ js_pc = "idle"
    /\ js_i = 0
    /\ raw_data = <<>>
    /\ processed_sheets = <<>>
    /\ skipped_sheets = <<>>
    /\ has_teacher_column = FALSE
    /\ js_teacher_map = <<>>
    /\ normalized_records = <<>>
    /\ data = NoOutput

InitJson ==
    /\ workbook \in Workbooks
    /\ js_pc = "extract"
    /\ js_i = 0
    /\ raw_data = <<>>
    /\ processed_sheets = <<>>
    /\ skipped_sheets = <<>>
    /\ has_teacher_column = FALSE
    /\ js_teacher_map = <<>>
    /\ normalized_records = <<>>
    /\ data = NoOutput

\* one iteration of "for sheet_name in workbook.sheetnames"
ExtractSheet ==
    /\ js_pc = "extract"
    /\ js_i < Len(workbook)
    /\ LET ws == workbook[js_i + 1]
           sheet_name == ws.name
           sheet_data == ExtractSheetData(ws)
       IN IF ShouldSkipSheet(sheet_name)
          THEN /\ skipped_sheets' = Append(skipped_sheets, sheet_name)
               /\ UNCHANGED <<raw_data, processed_sheets>>
          ELSE IF sheet_data.rows # <<>> \/ sheet_data.is_schedule
          THEN /\ raw_data' = MapPut(raw_data, sheet_name, sheet_data)
               /\ processed_sheets' = Append(processed_sheets, sheet_name)
               /\ UNCHANGED skipped_sheets
          ELSE /\ skipped_sheets' = Append(skipped_sheets, sheet_name)
               /\ UNCHANGED <<raw_data, processed_sheets>>
    /\ js_i' = js_i + 1
    /\ UNCHANGED <<workbook, js_pc, has_teacher_column, js_teacher_map,
                   normalized_records, data>>
    /\ UNCHANGED <<nameVars, schedVars, groupVars, pipeVars, callVars, gridVars, roclVars, fnVars, guiVars>>

\* the end of the extraction and the start of _normalize_and_match_fields,
\* up to its sheet loop
BeginNormalize ==
    /\ js_pc = "extract"
    /\ js_i = Len(workbook)
    /\ js_pc' = "normalize"
    /\ js_i' = 0
    /\ has_teacher_column' = CheckForTeacherColumn(raw_data)
    /\ js_teacher_map' =
            IF ~CheckForTeacherColumn(raw_data) THEN BuildTeacherMap(raw_data)
            ELSE <<>>
    /\ UNCHANGED <<workbook, raw_data, processed_sheets, skipped_sheets,
                   normalized_records, data>>
    /\ UNCHANGED <<nameVars, schedVars, groupVars, pipeVars, callVars, gridVars, roclVars, fnVars, guiVars>>

\* one iteration of "for sheet_name, sheet_data in ...['raw_data'].items()"
NormalizeSheet ==
    /\ js_pc = "normalize"
    /\ js_i < Len(raw_data)
    /\ normalized_records' =
            normalized_records \o
            NormalizedSheet(raw_data[js_i + 1].key, raw_data[js_i + 1].val,
                            js_teacher_map)
    /\ js_i' = js_i + 1
    /\ UNCHANGED <<workbook, js_pc, raw_data, processed_sheets, skipped_sheets,
                   has_teacher_column, js_teacher_map, data>>
    /\ UNCHANGED <<nameVars, schedVars, groupVars, pipeVars, callVars, gridVars, roclVars, fnVars, guiVars>>

\* the rest of process() once _normalize_and_match_fields has returned
ProcessReturn ==
    /\ js_pc = "normalize"
    /\ js_i = Len(raw_data)
    /\ js_pc' = "done"
    /\ data' =
            IF normalized_records = <<>>
            THEN [workbook |-> "None", rows |-> <<>>, cleaned_record_count |-> 0]
            ELSE [workbook |-> "standardized",
                  rows |-> StandardizedRows(normalized_records),
                  cleaned_record_count |-> Len(normalized_records)]
    /\ UNCHANGED <<workbook, js_i, raw_data, processed_sheets, skipped_sheets,
                   has_teacher_column, js_teacher_map, normalized_records>>
    /\ UNCHANGED <<nameVars, schedVars, groupVars, pipeVars, callVars, gridVars, roclVars, fnVars, guiVars>>

NextJson == ExtractSheet \/ BeginNormalize \/ NormalizeSheet \/ ProcessReturn

(***************************************************************************)
(* The stages as functions of the data dict, for ProcessingPipeline.  A    *)
(* key of the dict that is not set holds Absent.  A call either returns a  *)
(* data dict or raises: [raised, exc, data].                               *)
(***************************************************************************)
Absent == [kind |-> "absent"]
PyNone == [kind |-> "None"]
WorkbookOf(sheets) == [kind |-> "workbook", sheets |-> sheets]
IntOf(n) == [kind |-> "int", n |-> n]

\* data = {}
EmptyData ==
    [workbook |-> Absent, worksheet |-> Absent, cleaned_record_count |-> Absent,
     normalized_records |-> Absent, output_workbook |-> Absent,
     class_groups |-> Absent, row_count |-> Absent]

\* the truth value of data.get(key)
Present(value) == value # Absent /\ value # PyNone

Returned(d) == [raised |-> FALSE, exc |-> [cls |-> "", msg |-> ""], data |-> d]
Raised(cls, msg) == [raised |-> TRUE, exc |-> [cls |-> cls, msg |-> msg], data |-> EmptyData]

\* DataCleaningStage.process
DataCleaningProcess(d) ==
    IF ~Present(d.workbook) THEN Raised("ValueError", "Input workbook not found")
    ELSE Returned([d EXCEPT !.cleaned_record_count = IntOf(0)])

\* the loop of _extract_all_sheets_to_json from the k-th sheet on
RECURSIVE ExtractSheetsFrom(_, _, _)
ExtractSheetsFrom(sheets, k, raw) ==
    IF k > Len(sheets) THEN raw
    ELSE LET ws == sheets[k]
             sheet_data == ExtractSheetData(ws)
         IN ExtractSheetsFrom(sheets, k + 1,
                IF ~ShouldSkipSheet(ws.name)
                   /\ (sheet_data.rows # <<>> \/ sheet_data.is_schedule)
                THEN MapPut(raw, ws.name, sheet_data)
                ELSE raw)

\* the sheet loop of _normalize_and_match_fields from the s-th sheet on
RECURSIVE NormalizedSheetsFrom(_, _, _)
NormalizedSheetsFrom(raw, s, tmap) ==
    IF s > Len(raw) THEN <<>>
    ELSE NormalizedSheet(raw[s].key, raw[s].val, tmap)
            \o NormalizedSheetsFrom(raw, s + 1, tmap)

\* _normalize_and_match_fields on the raw_data of an extraction
NormalizeAndMatchFields(raw) ==
    NormalizedSheetsFrom(raw, 1,
        IF ~CheckForTeacherColumn(raw) THEN BuildTeacherMap(raw) ELSE <<>>)

\* the worksheet of _create_standardized_workbook
StandardizedSheet(records) ==
    [name |-> "Standardized Data",
     rows |-> << <<S("Teacher"), S("Student Name"), S("Class")>> >> \o
              [k \in 1..Len(records) |->
                <<S(records[k].teacher), S(records[k].student_name),
                  S(records[k].class_id)>>]]

\* process() raising on an empty normalized_records in place of the warning
MutJsonReturnRaisesOnEmpty(d, records) ==
    IF records = <<>> THEN Raised("ValueError", "No student records found")
    ELSE Returned([d EXCEPT
            !.workbook = WorkbookOf(<<StandardizedSheet(records)>>),
            !.worksheet = StandardizedSheet(records),
            !.normalized_records = [kind |-> "list", items |-> records],
            !.cleaned_record_count = IntOf(Len(records))])

\* what process() returns once normalized_records is known
JsonReturn(d, records) ==
    IF records = <<>>
    THEN Returned([d EXCEPT !.workbook = PyNone,
                            !.cleaned_record_count = IntOf(0)])
    ELSE Returned([d EXCEPT
            !.workbook = WorkbookOf(<<StandardizedSheet(records)>>),
            !.worksheet = StandardizedSheet(records),
            !.normalized_records = [kind |-> "list", items |-> records],
            !.cleaned_record_count = IntOf(Len(records))])

\* JSONUniversalCleaningStage.process
JsonProcess(d) ==
    IF ~Present(d.workbook) THEN Raised("ValueError", "Input workbook not found")
    ELSE JsonReturn(d,
            NormalizeAndMatchFields(ExtractSheetsFrom(d.workbook.sheets, 1, <<>>)))

\* re.sub(r"[^a-z0-9]+", " ", s): in_run tells that the run of other
\* characters before s has already given its blank
RECURSIVE BlankRuns(_, _)
BlankRuns(s, in_run) ==
    IF s = "" THEN ""
    ELSE IF Chr(s, 1) \in LowerChars \cup DigitChars
         THEN Chr(s, 1) \o BlankRuns(Tail1(s), FALSE)
    ELSE IF in_run THEN BlankRuns(Tail1(s), TRUE)
    ELSE " " \o BlankRuns(Tail1(s), TRUE)

\* ClassSplittingStage._normalize_header
NormalizeHeader(value) ==
    IF value = None THEN ""
    ELSE Strip(BlankRuns(Lower(Strip(Str(value))), FALSE))

\* ClassSplittingStage._get_default_mappings
DefaultMappings ==
    [class |-> <<"CLASS", "Class", "Class Section ID", "Class Section", "Class ID">>,
     teacher |-> <<"Teacher", "TEACHER">>,
     student |-> <<"Name", "Student", "STUDENT", "Student Name", "StudentName",
                   "Student Name(s)">>]

\* normalized[key] of _find_column_index: the last column whose header
\* normalizes to the key, 0 when the key is not in the dict
NormalizedColumn(header_row, key) ==
    IF key = "" THEN 0
    ELSE IF \A i \in 1..Len(header_row) : NormalizeHeader(header_row[i]) # key THEN 0
    ELSE CHOOSE i \in 1..Len(header_row) :
            /\ NormalizeHeader(header_row[i]) = key
            /\ \A x \in (i + 1)..Len(header_row) : NormalizeHeader(header_row[x]) # key

\* the loop "for cand in candidates" from the c-th candidate on
RECURSIVE FindColumnFrom(_, _, _)
FindColumnFrom(header_row, candidates, c) ==
    IF c > Len(candidates) THEN 0
    ELSE IF NormalizedColumn(header_row, NormalizeHeader(S(candidates[c]))) # 0
         THEN NormalizedColumn(header_row, NormalizeHeader(S(candidates[c])))
    ELSE FindColumnFrom(header_row, candidates, c + 1)

\* ClassSplittingStage._find_column_index: the column, 0 when it raises
FindColumnIndex(header_row, candidates) == FindColumnFrom(header_row, candidates, 1)

\* str(candidates) for a list of strings without quotes
ListRepr(items) ==
    "[" \o Join(", ", [i \in 1..Len(items) |-> "'" \o items[i] \o "'"]) \o "]"

\* the ValueError of a failed _find_column_index as process() raises it again
MappingError(candidates) ==
    Raised("ValueError",
           "Column mapping error: Could not find any of headers: " \o ListRepr(candidates))

\* _group_by_class as a function of the rows after the header row
RECURSIVE GroupsFrom(_, _, _, _, _, _)
GroupsFrom(gs, rows, i, class_idx, teacher_idx, student_idx) ==
    IF i > Len(rows) THEN GroupsSorted(gs)
    ELSE GroupsFrom(
            GroupsWithRow(gs, [cls |-> rows[i][class_idx],
                               student |-> rows[i][student_idx],
                               teacher |-> rows[i][teacher_idx]]),
            rows, i + 1, class_idx, teacher_idx, student_idx)

\* sum(len(info["students"]) for info in groups.values())
RECURSIVE StudentCount(_)
StudentCount(gs) ==
    IF gs = <<>> THEN 0 ELSE Len(gs[1].students) + StudentCount(Tail(gs))

\* what ClassSplittingStage.process returns once the groups are known
SplitReturn(d, gs) ==
    Returned([d EXCEPT
        !.output_workbook = [kind |-> "split workbook", groups |-> gs],
        !.class_groups = [kind |-> "groups", groups |-> gs],
        !.row_count = IntOf(StudentCount(gs))])

\* ClassSplittingStage.process once the three columns have been looked up
SplitWithColumns(d, class_idx, teacher_idx, student_idx) ==
    IF class_idx = 0 THEN MappingError(DefaultMappings.class)
    ELSE IF teacher_idx = 0 THEN MappingError(DefaultMappings.teacher)
    ELSE IF student_idx = 0 THEN MappingError(DefaultMappings.student)
    ELSE SplitReturn(d, GroupsFrom(<<>>, d.worksheet.rows, 2, class_idx,
                                   teacher_idx, student_idx))

\* ClassSplittingStage.process
SplitProcess(d) ==
    IF ~Present(d.worksheet)
    THEN Raised("ValueError", "Input worksheet not found in data")
    ELSE SplitWithColumns(d,
            FindColumnIndex(d.worksheet.rows[1], DefaultMappings.class),
            FindColumnIndex(d.worksheet.rows[1], DefaultMappings.teacher),
            FindColumnIndex(d.worksheet.rows[1], DefaultMappings.student))

\* stage.process(data) for the stage classes the pipeline factories use
StageProcess(stage, d) ==
    IF stage = "DataCleaningStage" THEN DataCleaningProcess(d)
    ELSE IF stage = "JSONUniversalCleaningStage" THEN JsonProcess(d)
    ELSE SplitProcess(d)

(***************************************************************************)
(* ProcessingPipeline.execute                                              *)
(***************************************************************************)
\* the base class of each exception class that can be raised here
BaseOf ==
    [ValueError |-> "Exception", FileNotFoundError |-> "OSError",
     PermissionError |-> "OSError", OSError |-> "Exception",
     Exception |-> "BaseException"]

\* isinstance(e, cls) for an exception of class exc_cls
RECURSIVE IsInstance(_, _)
IsInstance(exc_cls, cls) ==
    \/ exc_cls = cls
    \/ exc_cls \in DOMAIN BaseOf /\ IsInstance(BaseOf[exc_cls], cls)

\* str(n) for n >= 0
RECURSIVE DecStr(_)
DecStr(n) == IF n < 10 THEN IntStr(n) ELSE DecStr(n \div 10) \o IntStr(n % 10)

\* "except ValueError as e" in place of "except Exception as e"
MutCaughtValueErrorOnly(exc) == IsInstance(exc.cls, "ValueError")

\* "except Exception as e": whether the handler takes the exception
Caught(exc) == IsInstance(exc.cls, "Exception")

\* return False, f"Error: {str(e)}", {}
FailureOutcome(exc) ==
    [success |-> FALSE, message |-> "Error: " \o exc.msg, data |-> EmptyData]

\* the result message of a completed run
ResultMessage(d) ==
    IF d.class_groups # Absent
    THEN "Successfully processed "
            \o DecStr(IF d.row_count = Absent THEN 0 ELSE d.row_count.n)
            \o " records into " \o DecStr(Len(d.class_groups.groups))
            \o " class sheets!"
    ELSE "Successfully cleaned and standardized data!"

NoOutcome == [success |-> FALSE, message |-> "", data |-> EmptyData]

\* the pipelines the factories and the GUI build
Pipelines ==
    { <<"DataCleaningStage", "ClassSplittingStage">>,
      <<"DataCleaningStage">>,
      <<"JSONUniversalCleaningStage">>,
      <<"ClassSplittingStage">> }

\* the file at source_path: unreadable, or a workbook
NoFile == [kind |-> "no file"]
SourceFiles ==
    {NoFile} \cup {WorkbookOf(<<m>>) : m \in {x \in MainSheets : x.name = "Roster"}}

IdlePipe ==
    /\ pl_pc = "idle"
    /\ pl_stages = <<>>
    /\ pl_source = NoFile
    /\ pl_writable = FALSE
    /\ pl_k = 0
    /\ pl_data = EmptyData
    /\ pl_saved = Absent
    /\ pl_exc = [cls |-> "", msg |-> ""]
    /\ pl_outcome = NoOutcome

InitPipe ==
    /\ pl_pc = "load"
    /\ pl_stages \in Pipelines
    /\ pl_source \in SourceFiles
    /\ pl_writable \in BOOLEAN
    /\ pl_k = 0
    /\ pl_data = EmptyData
    /\ pl_saved = Absent
    /\ pl_exc = [cls |-> "", msg |-> ""]
    /\ pl_outcome = NoOutcome

\* an exception raised inside the try block: the handler returns the
\* failure outcome, or the exception leaves execute
Throw(exc) ==
    /\ pl_exc' = exc
    /\ IF Caught(exc)
       THEN pl_pc' = "returned" /\ pl_outcome' = FailureOutcome(exc)
       ELSE pl_pc' = "raised" /\ UNCHANGED pl_outcome

\* load_workbook(source_path, data_only=True) and the two data keys
LoadSource ==
    /\ pl_pc = "load"
    /\ IF pl_source = NoFile
       THEN /\ Throw([cls |-> "FileNotFoundError",
                      msg |-> "[Errno 2] No such file or directory: 'source_path'"])
            /\ UNCHANGED pl_data
       ELSE /\ pl_data' = [EmptyData EXCEPT !.workbook = pl_source,
                                            !.worksheet = pl_source.sheets[1]]
            /\ pl_pc' = "stages"
            /\ UNCHANGED <<pl_exc, pl_outcome>>
    /\ UNCHANGED <<pl_stages, pl_source, pl_writable, pl_k, pl_saved>>
    /\ UNCHANGED <<nameVars, schedVars, groupVars, jsonVars, callVars, gridVars, roclVars, fnVars, guiVars>>

\* the stage loop going on to the next stage after a stage has raised
MutAfterStageGoesOn(result) ==
    IF result.raised
    THEN /\ pl_exc' = result.exc
         /\ pl_k' = pl_k + 1
         /\ UNCHANGED <<pl_pc, pl_data, pl_outcome>>
    ELSE /\ pl_data' = result.data
         /\ pl_k' = pl_k + 1
         /\ UNCHANGED <<pl_pc, pl_exc, pl_outcome>>

\* data = stage.process(data), or the exception it raised
AfterStage(result) ==
    IF result.raised
    THEN Throw(result.exc) /\ UNCHANGED <<pl_data, pl_k>>
    ELSE /\ pl_data' = result.data
         /\ pl_k' = pl_k + 1
         /\ UNCHANGED <<pl_pc, pl_exc, pl_outcome>>

\* one iteration of "for stage in self.stages"
RunStage ==
    /\ pl_pc = "stages"
    /\ pl_k < Len(pl_stages)
    /\ AfterStage(StageProcess(pl_stages[pl_k + 1], pl_data))
    /\ UNCHANGED <<pl_stages, pl_source, pl_writable, pl_saved>>
    /\ UNCHANGED <<nameVars, schedVars, groupVars, jsonVars, callVars, gridVars, roclVars, fnVars, guiVars>>

\* the save of the output workbook, the result message and the return
SaveAndReturn ==
    /\ pl_pc = "stages"
    /\ pl_k = Len(pl_stages)
    /\ LET wb_to_save ==
            IF Present(pl_data.output_workbook) THEN pl_data.output_workbook
            ELSE IF Present(pl_data.workbook) THEN pl_data.workbook
            ELSE pl_source
       IN IF ~pl_writable
          THEN /\ Throw([cls |-> "PermissionError",
                         msg |-> "[Errno 13] Permission denied: 'output_path'"])
               /\ UNCHANGED pl_saved
          ELSE /\ pl_saved' = wb_to_save
               /\ pl_pc' = "returned"
               /\ pl_outcome' = [success |-> TRUE,
                                 message |-> ResultMessage(pl_data),
                                 data |-> pl_data]
               /\ UNCHANGED pl_exc
    /\ UNCHANGED <<pl_stages, pl_source, pl_writable, pl_k, pl_data>>
    /\ UNCHANGED <<nameVars, schedVars, groupVars, jsonVars, callVars, gridVars, roclVars, fnVars, guiVars>>

NextPipe == LoadSource \/ RunStage \/ SaveAndReturn

(***************************************************************************)
(* PictureDayCleaningStage: one stage object keeps the extraction of the   *)
(* call in progress in self.json_data                                      *)
(***************************************************************************)
\* _clean_text
PdCleanText(cell) ==
    IF ~Truthy(cell) THEN ""
    ELSE LET cleaned == Strip(Str(cell))
         IN IF IsUpper(cleaned) THEN Title(cleaned) ELSE cleaned

\* the loop over the comma-separated teachers of _clean_teacher_name
RECURSIVE PdCleanedTeachers(_)
PdCleanedTeachers(teachers) ==
    IF teachers = <<>> THEN <<>>
    ELSE LET t == Strip(Head(teachers))
         IN (IF t = "" THEN <<>>
             ELSE IF IsUpper(t) THEN <<Title(t)>> ELSE <<t>>)
                \o PdCleanedTeachers(Tail(teachers))

\* [p.strip() for p in parts]
StripAll(parts) == [i \in 1..Len(parts) |-> Strip(parts[i])]

\* _clean_teacher_name
PdCleanTeacherName(teacher_str) ==
    IF teacher_str = "" THEN ""
    ELSE Strip(Join(", ", PdCleanedTeachers(
            Split(Join(" / ", StripAll(
                Split(Join(", ", Split(teacher_str, "\n")), "/"))), ","))))

\* _clean_phone
PdCleanPhone(phone) ==
    IF ~Truthy(phone) THEN ""
    ELSE LET phone_str == Strip(Str(phone))
             n == Len(phone_str)
         IN IF n >= 2 /\ SubSeq(phone_str, n - 1, n) = ".0"
            THEN SubSeq(phone_str, 1, n - 2) ELSE phone_str

\* the width a row needs to carry contact columns
ContactRowWidth == 8

\* the contact a row adds to its student: <<>> when it adds none
PdContactsOf(row) ==
    IF Len(row) < ContactRowWidth THEN <<>>
    ELSE LET contact_first == PdCleanText(row[4])
             contact_last == PdCleanText(row[5])
             email == PdCleanText(row[8])
         IN IF contact_first # "" \/ contact_last # "" \/ email # ""
            THEN <<[first_name |-> contact_first, last_name |-> contact_last,
                    relationship |-> PdCleanText(row[6]),
                    phone |-> PdCleanPhone(row[7]), email |-> email]>>
            ELSE <<>>

\* processed_students after one row of a grade sheet
PdWithRow(students, row) ==
    LET student_first == PdCleanText(row[1])
        student_last == PdCleanText(row[2])
        grade == PdCleanText(row[3])
        student_key == Upper(student_first) \o "|" \o Upper(student_last)
                           \o "|" \o grade
        known == IF MapHas(students, student_key) THEN students
                 ELSE MapPut(students, student_key,
                        [first_name |-> student_first,
                         last_name |-> student_last,
                         full_name |-> Strip(student_first \o " " \o student_last),
                         grade |-> grade, class |-> None, teacher |-> None,
                         contacts |-> <<>>])
        student == MapGet(known, student_key)
    IN IF ~Truthy(row[1]) \/ student_first = "" \/ student_last = ""
       THEN students
       ELSE MapPut(known, student_key,
                [student EXCEPT !.contacts = @ \o PdContactsOf(row)])

\* the loop over ws.iter_rows(min_row=2) of a grade sheet, from row i on
RECURSIVE PdWithRows(_, _, _)
PdWithRows(students, rows, i) ==
    IF i > Len(rows) THEN students
    ELSE PdWithRows(PdWithRow(students, rows[i]), rows, i + 1)

GradeSheetWords == {"6th", "7th", "8th", "Grade"}

IsGradeSheet(sheet_name) ==
    /\ ~Contains("schedule", Lower(sheet_name))
    /\ \E grade \in GradeSheetWords : Contains(grade, sheet_name)

\* the loop over workbook.sheetnames of _extract_to_json, from sheet k on
RECURSIVE PdWithSheets(_, _, _)
PdWithSheets(students, sheets, k) ==
    IF k > Len(sheets) THEN students
    ELSE PdWithSheets(
            IF IsGradeSheet(sheets[k].name)
            THEN PdWithRows(students, sheets[k].rows, 2) ELSE students,
            sheets, k + 1)

MapValues(m) == [i \in 1..Len(m) |-> m[i].val]

\* _extract_to_json
ExtractToJson(sheets) ==
    LET graded == Ascending({k \in 1..Len(sheets) : IsGradeSheet(sheets[k].name)})
    IN [students |-> MapValues(PdWithSheets(<<>>, sheets, 1)),
        schedule |-> <<>>,
        metadata |-> [total_sheets |-> Len(graded),
                      grades_processed |->
                          [i \in 1..Len(graded) |-> sheets[graded[i]].name]]]

\* the sheets whose name mentions the schedule, in workbook order
ScheduleSheetsOf(sheets) ==
    Ascending({k \in 1..Len(sheets) : Contains("schedule", Lower(sheets[k].name))})

\* the first row of the schedule sheet that holds a mapping, and the
\* column of the class and of the teacher
ScheduleFirstRow == 5
ScheduleClassColumn == 2
ScheduleTeacherColumn == 5

\* class_teacher_map after one row of the schedule sheet
PdWithScheduleRow(m, row) ==
    IF Len(row) < ScheduleTeacherColumn THEN m
    ELSE IF ~(Truthy(row[ScheduleClassColumn]) /\ Truthy(row[ScheduleTeacherColumn]))
    THEN m
    ELSE LET class_str == Strip(Str(row[ScheduleClassColumn]))
             teacher_str == PdCleanTeacherName(Strip(Str(row[ScheduleTeacherColumn])))
         IN IF teacher_str = "" THEN m
            ELSE IF Contains("/", class_str)
            THEN PutParts(m, Split(class_str, "/"), teacher_str)
            ELSE MapPut(m, class_str, teacher_str)

\* the loop over schedule_sheet.iter_rows(min_row=5), from row i on
RECURSIVE PdClassTeacherMap(_, _, _)
PdClassTeacherMap(m, rows, i) ==
    IF i > Len(rows) THEN m
    ELSE PdClassTeacherMap(PdWithScheduleRow(m, rows[i]), rows, i + 1)

\* grade_prefix of a class name; str(class_name)[0] raises IndexError on ''
GradePrefix(class_name) ==
    IF Contains(".", class_name) THEN Split(class_name, ".")[1]
    ELSE Chr(class_name, 1)

GradeKeys == [prefix \in {"6", "7", "8"} |->
                 CASE prefix = "6" -> "6th Grade"
                   [] prefix = "7" -> "7th Grade"
                   [] prefix = "8" -> "8th Grade"]

\* grade_classes[grade]: the class names of a grade in map order
GradeClasses(m, grade) ==
    LET at == Ascending({i \in 1..Len(m) :
                   /\ GradePrefix(m[i].key) \in DOMAIN GradeKeys
                   /\ GradeKeys[GradePrefix(m[i].key)] = grade})
    IN [j \in 1..Len(at) |-> m[at[j]].key]

\* the key of students_by_grade a student is filed under, "" for none
GradeKeyOf(grade_key) ==
    IF Contains("6th", grade_key) \/ Contains("6 ", grade_key) THEN "6th Grade"
    ELSE IF Contains("7th", grade_key) \/ Contains("7 ", grade_key) THEN "7th Grade"
    ELSE IF Contains("8th", grade_key) \/ Contains("8 ", grade_key) THEN "8th Grade"
    ELSE ""

\* the student's position (from 0) in students_by_grade[grade]
PlaceInGrade(students, i) ==
    Cardinality({j \in 1..(i - 1) :
        GradeKeyOf(students[j].grade) = GradeKeyOf(students[i].grade)})

\* the round-robin assignment of _map_classes_and_teachers to one student
PdAssigned(students, i, m) ==
    LET grade == GradeKeyOf(students[i].grade)
        classes == GradeClasses(m, grade)
    IN IF grade = "" THEN students[i]
       ELSE IF classes = <<>>
       THEN [students[i] EXCEPT !.class = S(grade), !.teacher = S("")]
       ELSE LET class_name == classes[(PlaceInGrade(students, i) % Len(classes)) + 1]
            IN [students[i] EXCEPT !.class = S(class_name),
                                   !.teacher = S(MapGet(m, class_name))]

\* _map_classes_and_teachers on the extraction json_data: the extraction it
\* leaves, and whether it raised (IndexError on the class name '')
MapClassesAndTeachers(json_data, sheets) ==
    LET found == ScheduleSheetsOf(sheets)
        m == PdClassTeacherMap(<<>>, sheets[found[1]].rows, ScheduleFirstRow)
    IN IF found = <<>>
       THEN [raised |-> FALSE,
             json_data |-> [json_data EXCEPT !.students =
                 [i \in 1..Len(json_data.students) |->
                     [json_data.students[i] EXCEPT
                         !.class = S(json_data.students[i].grade),
                         !.teacher = S("")]]]]
       ELSE IF MapHas(m, "")
       THEN [raised |-> TRUE, json_data |-> [json_data EXCEPT !.schedule = m]]
       ELSE [raised |-> FALSE,
             json_data |-> [json_data EXCEPT
                 !.schedule = m,
                 !.students = [i \in 1..Len(json_data.students) |->
                                  PdAssigned(json_data.students, i, m)]]]

\* (grade, last_name) < (grade, last_name) for the sort key
SortKeyLess(a, b) ==
    \/ StrLess(a.grade, b.grade)
    \/ a.grade = b.grade /\ StrLess(a.last_name, b.last_name)

\* sorted(students, key=...): the stable order of the positions 1..Len(students)
SortedPlaces(students) ==
    LET Before(i, j) == \/ SortKeyLess(students[i], students[j])
                        \/ ~SortKeyLess(students[j], students[i]) /\ i < j
    IN [r \in 1..Len(students) |->
           CHOOSE i \in 1..Len(students) :
               Cardinality({j \in 1..Len(students) : Before(j, i)}) = r - 1]

\* _create_cleaned_workbook: the rows of the sheet "Cleaned Data"
CreateCleanedWorkbook(json_data) ==
    LET students == json_data.students
        order == SortedPlaces(students)
    IN [title |-> "Cleaned Data",
        rows |-> <<<<S("Teacher"), S("Student Name"), S("Class")>>>> \o
                 [r \in 1..Len(students) |->
                     <<students[order[r]].teacher,
                       S(students[order[r]].full_name),
                       students[order[r]].class>>]]

\* PictureDayCleaningStage.process run by itself on a fresh stage object
PictureDayProcess(sheets) ==
    LET mapped == MapClassesAndTeachers(ExtractToJson(sheets), sheets)
    IN IF mapped.raised
       THEN [raised |-> TRUE, cls |-> "IndexError"]
       ELSE [raised |-> FALSE,
             workbook |-> CreateCleanedWorkbook(mapped.json_data),
             cleaned_record_count |-> Len(mapped.json_data.students),
             json_extraction |-> mapped.json_data]

(***************************************************************************)
(* Two calls of process() in two threads, on one stage object or on two    *)
(***************************************************************************)
Threads == {1, 2}

GradeHeader == <<S("First Name"), S("Last Name"), S("Grade")>>

ContactHeader ==
    GradeHeader \o <<S("Contact First"), S("Contact Last"), S("Relationship"),
                     S("Phone"), S("Email")>>

GradeSheets ==
    { [name |-> "6th Grade",
       rows |-> <<GradeHeader,
                  <<S("ANN"), S("LEE"), S("6th Grade")>>,
                  <<S("bob"), S("ray"), S("6th Grade")>>,
                  <<S("Cy"), S("Orr"), S("6th Grade")>> >>],
      [name |-> "6th Grade",
       rows |-> <<GradeHeader,
                  <<S("Di"), S("Fox"), S("6th Grade")>>,
                  <<None, S("Ghost"), S("6th Grade")>>,
                  <<S("Al"), S("Day"), S("7th Grade")>> >>],
      [name |-> "Grade 7",
       rows |-> <<GradeHeader,
                  <<S("Ed"), S("Poe"), S("7 ")>>,
                  <<S("Flo"), None, S("7th Grade")>> >>],
      [name |-> "8th",
       rows |-> <<ContactHeader,
                  <<S("EVA"), S("KAY"), S("8th Grade"), S("MA"), S("KAY"),
                    S("mother"), N("5551234.0"), S("ma@kay.org")>>,
                  <<S("Eva"), S("Kay"), S("8th Grade"), None, None,
                    None, None, None>>,
                  <<S("eva"), S("kay"), S("8th Grade"), S("Pa"), None,
                    S("father"), S(" 555-9 "), None>> >>] }

ScheduleTop ==
    << <<S("Picture Day Schedule"), None, None, None, None>>,
       <<None, None, None, None, None>>,
       <<None, None, None, None, None>>,
       <<S("Time"), S("Class"), S("Room"), S("Count"), S("Teacher")>> >>

PictureScheduleSheets ==
    { [name |-> "Schedule ",
       rows |-> ScheduleTop \o
                << <<S("9:00"), S("6.1"), None, N("20"), S("Ms.Roy\nMS REED")>>,
                   <<S("9:20"), S("6.2"), None, N("21"), S("Reno/ Orio ")>>,
                   <<S("9:40"), N("7"), None, N("19"), S(" , ")>> >>],
      [name |-> "Schedule ",
       rows |-> ScheduleTop \o
                << <<S("9:00"), S("8.1 / 6.1"), None, N("20"), S("HALL")>>,
                   <<S("9:20"), S("7.1"), None, None, S("Ms. Diaz")>>,
                   <<S("9:40"), S("8.1"), None, None, S("Mr. Ito")>> >>],
      [name |-> "Schedule ",
       rows |-> ScheduleTop \o
                << <<S("9:00"), S("  "), None, N("20"), S("Ms. Roy")>> >>] }

PictureWorkbooks ==
    {<<g>> : g \in GradeSheets}
        \cup {<<g, s>> : g \in GradeSheets, s \in PictureScheduleSheets}

JsonCallWorkbooks ==
    {<<m>> : m \in {x \in MainSheets : x.name = "Roster" /\ Len(x.rows) = 2}}

NoLocals == [wb_out |-> Absent, extracted_json |-> Absent,
             normalized_records |-> Absent]

IdleCalls ==
    /\ cc_stage = ""
    /\ cc_shared = FALSE
    /\ cc_wb = <<>>
    /\ cc_pc = <<>>
    /\ cc_self = <<>>
    /\ cc_heap = <<>>
    /\ cc_local = <<>>
    /\ cc_ret = <<>>

\* two threads about to call process(), each with a workbook of its own;
\* cc_self[o] names the extraction self.json_data of stage object o refers
\* to (0 for None), cc_heap[t] is the extraction thread t created
InitCalls ==
    /\ cc_stage \in {"PictureDayCleaningStage", "JSONUniversalCleaningStage"}
    /\ cc_shared \in BOOLEAN
    /\ cc_wb \in [Threads ->
           IF cc_stage = "PictureDayCleaningStage" THEN PictureWorkbooks
           ELSE JsonCallWorkbooks]
    /\ cc_wb[1] # cc_wb[2]
    /\ cc_pc = [t \in Threads |-> "call"]
    /\ cc_self = [o \in Threads |-> 0]
    /\ cc_heap = [t \in Threads |-> PyNone]
    /\ cc_local = [t \in Threads |-> NoLocals]
    /\ cc_ret = [t \in Threads |-> Absent]

\* the stage object thread t calls process() on
StageOf(t) == IF cc_shared THEN 1 ELSE t

\* self.json_data = self._extract_to_json(wb_in)
PdExtract(t) ==
    /\ cc_stage = "PictureDayCleaningStage"
    /\ cc_pc[t] = "call"
    /\ cc_heap' = [cc_heap EXCEPT ![t] = ExtractToJson(cc_wb[t])]
    /\ cc_self' = [cc_self EXCEPT ![StageOf(t)] = t]
    /\ cc_pc' = [cc_pc EXCEPT ![t] = "extracted"]
    /\ UNCHANGED <<cc_stage, cc_shared, cc_wb, cc_local, cc_ret>>
    /\ UNCHANGED <<nameVars, schedVars, groupVars, jsonVars, pipeVars, gridVars, roclVars, fnVars, guiVars>>

\* what _map_classes_and_teachers(wb_in) of thread t does to the extraction
\* self.json_data refers to at that time
Mapped(t) == MapClassesAndTeachers(cc_heap[cc_self[StageOf(t)]], cc_wb[t])

\* self._map_classes_and_teachers(wb_in)
PdMap(t) ==
    /\ cc_stage = "PictureDayCleaningStage"
    /\ cc_pc[t] = "extracted"
    /\ cc_heap' = [cc_heap EXCEPT ![cc_self[StageOf(t)]] = Mapped(t).json_data]
    /\ cc_pc' = [cc_pc EXCEPT
           ![t] = IF Mapped(t).raised THEN "raised" ELSE "mapped"]
    /\ UNCHANGED <<cc_stage, cc_shared, cc_wb, cc_self, cc_local, cc_ret>>
    /\ UNCHANGED <<nameVars, schedVars, groupVars, jsonVars, pipeVars, gridVars, roclVars, fnVars, guiVars>>

\* wb_out = self._create_cleaned_workbook()
PdCreate(t) ==
    /\ cc_stage = "PictureDayCleaningStage"
    /\ cc_pc[t] = "mapped"
    /\ cc_local' = [cc_local EXCEPT
           ![t].wb_out = CreateCleanedWorkbook(cc_heap[cc_self[StageOf(t)]])]
    /\ cc_pc' = [cc_pc EXCEPT ![t] = "created"]
    /\ UNCHANGED <<cc_stage, cc_shared, cc_wb, cc_self, cc_heap, cc_ret>>
    /\ UNCHANGED <<nameVars, schedVars, groupVars, jsonVars, pipeVars, gridVars, roclVars, fnVars, guiVars>>

\* the assignments to data and "return data"; json_extraction is the
\* reference self.json_data holds at that time
PdReturn(t) ==
    /\ cc_stage = "PictureDayCleaningStage"
    /\ cc_pc[t] = "created"
    /\ cc_ret' = [cc_ret EXCEPT ![t] =
           [workbook |-> cc_local[t].wb_out,
            cleaned_record_count |-> Len(cc_heap[cc_self[StageOf(t)]].students),
            json_extraction |-> cc_self[StageOf(t)]]]
    /\ cc_pc' = [cc_pc EXCEPT ![t] = "returned"]
    /\ UNCHANGED <<cc_stage, cc_shared, cc_wb, cc_self, cc_heap, cc_local>>
    /\ UNCHANGED <<nameVars, schedVars, groupVars, jsonVars, pipeVars, gridVars, roclVars, fnVars, guiVars>>

\* extracted_json = self._extract_all_sheets_to_json(wb_in)
JsExtract(t) ==
    /\ cc_stage = "JSONUniversalCleaningStage"
    /\ cc_pc[t] = "call"
    /\ cc_local' = [cc_local EXCEPT
           ![t].extracted_json = ExtractSheetsFrom(cc_wb[t], 1, <<>>)]
    /\ cc_pc' = [cc_pc EXCEPT ![t] = "extracted"]
    /\ UNCHANGED <<cc_stage, cc_shared, cc_wb, cc_self, cc_heap, cc_ret>>
    /\ UNCHANGED <<nameVars, schedVars, groupVars, jsonVars, pipeVars, gridVars, roclVars, fnVars, guiVars>>

\* normalized_records = self._normalize_and_match_fields(extracted_json)
JsNormalize(t) ==
    /\ cc_stage = "JSONUniversalCleaningStage"
    /\ cc_pc[t] = "extracted"
    /\ cc_local' = [cc_local EXCEPT
           ![t].normalized_records =
               NormalizeAndMatchFields(cc_local[t].extracted_json)]
    /\ cc_pc' = [cc_pc EXCEPT ![t] = "mapped"]
    /\ UNCHANGED <<cc_stage, cc_shared, cc_wb, cc_self, cc_heap, cc_ret>>
    /\ UNCHANGED <<nameVars, schedVars, groupVars, jsonVars, pipeVars, gridVars, roclVars, fnVars, guiVars>>

\* the rest of process(): the output workbook and "return data"
JsReturn(t) ==
    /\ cc_stage = "JSONUniversalCleaningStage"
    /\ cc_pc[t] = "mapped"
    /\ cc_ret' = [cc_ret EXCEPT ![t] =
           JsonReturn([EmptyData EXCEPT !.workbook = WorkbookOf(cc_wb[t])],
                      cc_local[t].normalized_records).data]
    /\ cc_pc' = [cc_pc EXCEPT ![t] = "returned"]
    /\ UNCHANGED <<cc_stage, cc_shared, cc_wb, cc_self, cc_heap, cc_local>>
    /\ UNCHANGED <<nameVars, schedVars, groupVars, jsonVars, pipeVars, gridVars, roclVars, fnVars, guiVars>>

NextCalls ==
    \E t \in Threads :
        \/ PdExtract(t) \/ PdMap(t) \/ PdCreate(t) \/ PdReturn(t)
        \/ JsExtract(t) \/ JsNormalize(t) \/ JsReturn(t)

(***************************************************************************)
(* Inputs of _is_grid_format: sheets of up to MaxGridSheetRows rows whose   *)
(* first column holds one "Teacher" label and two or three "Student N"     *)
(* labels somewhere below the first row.                                   *)
(***************************************************************************)
MaxGridSheetRows == 11

GridFirstRows ==
    { <<None, S("Ms X"), S("Ms Y")>>,
      <<None, S("Class A"), S("Ms Y")>>,
      <<None, S("Class A"), S("Class B")>> }

\* the row of a label sheet: its label and two cells
GridLabelRow(i, teacher_at, students_at) ==
    IF i = teacher_at THEN <<S("Teacher"), S("Ms X"), S("Ms Y")>>
    ELSE IF i \in students_at
    THEN <<S("Student " \o IntStr(i % 10)), S("Tom"), S("Amy")>>
    ELSE <<None, None, None>>

GridLabelSheets ==
    {[name |-> "Sheet1",
      rows |-> <<first_row>> \o
               [i \in 1..(n - 1) |-> GridLabelRow(i + 1, teacher_at, students_at)]] :
        first_row \in GridFirstRows,
        n \in (MaxGridSheetRows - 2)..MaxGridSheetRows,
        teacher_at \in 2..MaxGridSheetRows,
        students_at \in {x \in SUBSET (2..MaxGridSheetRows) :
                            Cardinality(x) \in {2, 3}}}

IdleGrid ==
    /\ gf_pc = "idle"
    /\ gf_sheet = [name |-> "", rows |-> <<>>]
    /\ gf_result = FALSE

InitGrid ==
    /\ gf_pc = "call"
    /\ gf_sheet \in GridLabelSheets
    /\ gf_result = FALSE

\* a call of _is_grid_format(worksheet)
IsGridFormatCall ==
    /\ gf_pc = "call"
    /\ gf_result' = IsGridFormat(gf_sheet)
    /\ gf_pc' = "done"
    /\ UNCHANGED gf_sheet
    /\ UNCHANGED <<nameVars, schedVars, groupVars, jsonVars, pipeVars, callVars, roclVars, fnVars, guiVars>>

NextGrid == IsGridFormatCall

(***************************************************************************)
(* ROCLCleaningStage: header row, title rows and records of one worksheet  *)
(***************************************************************************)
CLASS_HEADERS ==
    <<"class", "class id", "class#", "ocl", "class section id",
      "class section", "section", "grade", "grade level">>
STUDENT_FULL_HEADERS ==
    <<"name", "student", "student name", "full name", "student full",
      "stu name">>
STUDENT_FIRST_HEADERS ==
    <<"first name", "fname", "student first name", "given name", "first",
      "fname">>
STUDENT_LAST_HEADERS ==
    <<"last name", "lname", "student last name", "surname", "last", "lname">>
TEACHER_HEADERS == <<"teacher", "teacher name", "homeroom teacher", "tchr">>
ADVISOR_HEADERS == <<"advisor", "adv", "adviser">>

\* candidate.lower() of every candidate of the six lists
CandidateLower ==
    LET lists == <<CLASS_HEADERS, STUDENT_FULL_HEADERS, STUDENT_FIRST_HEADERS,
                   STUDENT_LAST_HEADERS, TEACHER_HEADERS, ADVISOR_HEADERS>>
    IN [candidate \in UNION {{lists[n][k] : k \in 1..Len(lists[n])} :
                                n \in 1..Len(lists)} |-> Lower(candidate)]

\* headers_lower of one row
HeadersLower(row) ==
    [j \in 1..Len(row) |->
        IF Truthy(row[j]) THEN Strip(Lower(Str(row[j]))) ELSE ""]

\* one pass of find_header from the k-th candidate on: the column of the
\* first candidate that some header equals (exact) or contains, 0 for None
RECURSIVE FindHeaderPass(_, _, _, _)
FindHeaderPass(headers_lower, candidates_list, k, exact) ==
    IF k > Len(candidates_list) THEN 0
    ELSE LET candidate == CandidateLower[candidates_list[k]]
             Hit(idx) == IF exact THEN headers_lower[idx] = candidate
                         ELSE Contains(candidate, headers_lower[idx])
             columns == 1..Len(headers_lower)
         IN IF \E idx \in columns : Hit(idx)
            THEN CHOOSE idx \in columns :
                    Hit(idx) /\ \A before \in 1..(idx - 1) : ~Hit(before)
            ELSE FindHeaderPass(headers_lower, candidates_list, k + 1, exact)

\* find_header: the column found (columns count from 1), 0 for None
FindHeader(headers_lower, candidates_list) ==
    LET exact == FindHeaderPass(headers_lower, candidates_list, 1, TRUE)
    IN IF exact # 0 THEN exact
       ELSE FindHeaderPass(headers_lower, candidates_list, 1, FALSE)

\* the six columns find_header resolves on one row
ResolvedColumns(headers_lower) ==
    [student_full |-> FindHeader(headers_lower, STUDENT_FULL_HEADERS),
     student_first |-> FindHeader(headers_lower, STUDENT_FIRST_HEADERS),
     student_last |-> FindHeader(headers_lower, STUDENT_LAST_HEADERS),
     class |-> FindHeader(headers_lower, CLASS_HEADERS),
     teacher |-> FindHeader(headers_lower, TEACHER_HEADERS),
     advisor |-> FindHeader(headers_lower, ADVISOR_HEADERS)]

\* has_name
HasName(found) ==
    found.student_full # 0 \/ (found.student_first # 0 /\ found.student_last # 0)

\* the indices a candidate row keeps: first and last name before full name
KeptColumns(found) ==
    IF found.student_first # 0 /\ found.student_last # 0
    THEN [found EXCEPT !.student_full = 0]
    ELSE found

\* quality_score of a row whose kept indices are idxs
QualityScore(headers_lower, idxs) ==
    (IF idxs.student_full # 0
        /\ headers_lower[idxs.student_full]
              \in {"name", "student name", "student", "full name"}
     THEN 2 ELSE 0)
    + (IF idxs.teacher # 0 /\ headers_lower[idxs.teacher] = "teacher"
       THEN 2 ELSE 0)
    + (IF idxs.class # 0
          /\ headers_lower[idxs.class] \in {"class", "class id", "section"}
       THEN 1 ELSE 0)

\* what the body of the row loop appends to candidates for the row at
\* row_idx (row_idx counts from 0 as enumerate does)
HeaderCandidate(row, row_idx) ==
    LET headers_lower == HeadersLower(row)
        found == ResolvedColumns(headers_lower)
        idxs == KeptColumns(found)
    IN IF HasName(found)
       THEN <<[quality_score |-> QualityScore(headers_lower, idxs),
               row_idx |-> row_idx, idxs |-> idxs]>>
       ELSE <<>>

RoclHeaderRows == 10

\* the loop over iter_rows(min_row=1, max_row=10) from row_idx on
RECURSIVE HeaderCandidates(_, _)
HeaderCandidates(ws, row_idx) ==
    IF row_idx >= RoclHeaderRows THEN <<>>
    ELSE HeaderCandidate(RowAt(ws, row_idx + 1), row_idx)
         \o HeaderCandidates(ws, row_idx + 1)

\* a step of the stable sort with ties resolved for the later candidate
MutInsertByScoreBeforeTies(sorted, c) ==
    LET before == Cardinality({k \in 1..Len(sorted) :
                                  sorted[k].quality_score > c.quality_score})
    IN SubSeq(sorted, 1, before) \o <<c>> \o SubSeq(sorted, before + 1, Len(sorted))

\* a step of candidates.sort(key=score, reverse=True): the sort is stable,
\* so c goes behind every candidate already placed whose score is not lower
InsertByScore(sorted, c) ==
    LET before == Cardinality({k \in 1..Len(sorted) :
                                  sorted[k].quality_score >= c.quality_score})
    IN SubSeq(sorted, 1, before) \o <<c>> \o SubSeq(sorted, before + 1, Len(sorted))

\* candidates.sort(key=lambda x: x[0], reverse=True), from the k-th on
RECURSIVE SortedByScore(_, _, _)
SortedByScore(candidates, k, sorted) ==
    IF k > Len(candidates) THEN sorted
    ELSE SortedByScore(candidates, k + 1, InsertByScore(sorted, candidates[k]))

\* header_row for None
NoHeaderRow == -1

\* the fixed-width assumption: A = name, B = class, C = teacher
FixedWidthColumns ==
    [student_full |-> 1, student_first |-> 0, student_last |-> 0,
     class |-> 2, teacher |-> 3, advisor |-> 0]

\* _find_header_row_and_indices
FindHeaderRowAndIndices(ws) ==
    LET candidates == HeaderCandidates(ws, 0)
        best == SortedByScore(candidates, 1, <<>>)
    IN IF candidates # <<>>
       THEN [header_row |-> best[1].row_idx, idxs |-> best[1].idxs]
       ELSE [header_row |-> NoHeaderRow, idxs |-> FixedWidthColumns]

\* the loop of ROCLCleaningStage._extract_metadata_from_title_rows from
\* row row_idx + 1 on, up to max_row rows
RECURSIVE RoclTitleScan(_, _, _, _)
RoclTitleScan(ws, row_idx, max_row, found) ==
    IF row_idx >= max_row THEN found
    ELSE
     LET row == RowAt(ws, row_idx + 1)
         text == Strip(Str(row[1]))
         both == Search([p \in 1..Len(text) |-> ClassTeacherAt(text, p)])
         teacher == Search([p \in 1..Len(text) |-> TeacherAt(text, p)])
         class == Search([p \in 1..Len(text) |-> ClassAt(text, p)])
     IN RoclTitleScan(ws, row_idx + 1, max_row,
            IF ~Truthy(row[1]) THEN found
            ELSE IF both.ok
                 THEN [class_val |-> Strip(both.g1), teacher_val |-> Strip(both.g2)]
            ELSE IF teacher.ok
                 THEN [found EXCEPT !.teacher_val = Strip(teacher.g1)]
            ELSE IF class.ok
                 THEN [found EXCEPT !.class_val = Strip(class.g1)]
            ELSE found)

RoclTitleRows == 10

\* ROCLCleaningStage._extract_metadata_from_title_rows, with "" for None
RoclExtractMetadataFromTitleRows(ws, header_row) ==
    RoclTitleScan(ws, 0,
        IF header_row # NoHeaderRow THEN header_row ELSE RoclTitleRows,
        [class_val |-> "", teacher_val |-> ""])

\* ROCLCleaningStage._clean_text
RoclCleanText(text) == IF ~Truthy(text) THEN "" ELSE Strip(Str(text))

\* get(field) of _extract_and_clean
RoclGet(vals, idx) == IF idx # 0 /\ idx <= Len(vals) THEN vals[idx] ELSE None

\* " ".join(str(x).strip() for x in (first, last) if x).strip()
JoinFirstLast(first, last) ==
    LET f == IF Truthy(first) THEN <<Strip(Str(first))>> ELSE <<>>
        l == IF Truthy(last) THEN <<Strip(Str(last))>> ELSE <<>>
        parts == f \o l
    IN Strip(IF parts = <<>> THEN ""
             ELSE IF Len(parts) = 1 THEN parts[1]
             ELSE parts[1] \o " " \o parts[2])

\* the body of the row loop of _extract_and_clean: what one row appends to
\* cleaned_records; advisor is None for a record without that key
CleanedRecord(vals, idxs, default_class, default_teacher) ==
    LET full == RoclGet(vals, idxs.student_full)
        first == RoclGet(vals, idxs.student_first)
        last == RoclGet(vals, idxs.student_last)
        class_col == RoclGet(vals, idxs.class)
        teacher_col == RoclGet(vals, idxs.teacher)
        advisor == RoclGet(vals, idxs.advisor)
        class_val == IF ~Truthy(class_col) THEN S(default_class) ELSE class_col
        teacher == IF ~Truthy(teacher_col) THEN S(default_teacher) ELSE teacher_col
        student_name == IF Truthy(full) THEN RoclCleanName(Str(full))
                        ELSE RoclCleanName(JoinFirstLast(first, last))
    IN IF ~(Truthy(full) \/ Truthy(first) \/ Truthy(last)) THEN <<>>
       ELSE <<[teacher |-> IF Truthy(teacher) THEN RoclCleanText(teacher) ELSE "",
               student |-> student_name,
               class |-> RoclCleanText(class_val),
               advisor |-> IF Truthy(advisor) THEN S(RoclCleanText(advisor))
                           ELSE None]>>

\* the row loop of _extract_and_clean from row i on
RECURSIVE CleanedRecords(_, _, _, _, _)
CleanedRecords(ws, i, idxs, default_class, default_teacher) ==
    IF i > MaxRowOf(ws) THEN <<>>
    ELSE CleanedRecord(ws.rows[i], idxs, default_class, default_teacher)
         \o CleanedRecords(ws, i + 1, idxs, default_class, default_teacher)

RoclStartProbeRows == 100

\* data_start_row of _extract_and_clean
DataStartRow(ws, header_row) ==
    IF header_row = NoHeaderRow
    THEN LET HasContent(i) == /\ Truthy(RowAt(ws, i)[1])
                              /\ Strip(Str(RowAt(ws, i)[1])) # ""
             filled == Ascending({i \in 1..Min(RoclStartProbeRows, MaxRowOf(ws)) :
                                     HasContent(i)})
         IN IF filled # <<>> THEN filled[1] ELSE 1
    ELSE header_row + 2

\* _extract_and_clean, from the (header_row, idxs) its first line gets
ExtractAndCleanWith(ws, header) ==
    LET title == RoclExtractMetadataFromTitleRows(ws, header.header_row)
    IN CleanedRecords(ws, DataStartRow(ws, header.header_row), header.idxs,
            IF title.class_val # "" THEN title.class_val ELSE ws.name,
            title.teacher_val)

(***************************************************************************)
(* Inputs of the worksheet calls: a sheet named "Roster" of three columns  *)
(* with up to two header-like rows, which start at row 1 or at row 10, or  *)
(* with three of them, above up to MaxRoclDataRows data rows.              *)
(***************************************************************************)
MaxRoclDataRows == 2

RoclHeaderPool ==
    { <<S("Name"), S("Class"), S("Teacher")>>,
      <<S("Student Name"), S("Grade"), None>>,
      <<S("First Name"), None, S("Teacher")>>,
      <<S("Name"), S("First Name"), S("Last Name")>>,
      <<S("Teacher"), S("Class"), None>> }

RoclTopBlocks ==
    {<<>>} \cup {<<g>> : g \in RoclHeaderPool}
           \cup {<<g, h>> : g \in RoclHeaderPool, h \in RoclHeaderPool}

\* two header-like rows below a row that resolves first and last name
RoclTallBlocks ==
    {<< <<S("Name"), S("First Name"), S("Last Name")>>, g, h >> :
        g \in RoclHeaderPool, h \in RoclHeaderPool}

RoclDataPool ==
    { <<S("  "), S("Ann"), S("Lee")>>,
      <<S("Jo Poe"), None, None>>,
      <<S("Al Roe"), S("bo"), S("DAY")>>,
      <<None, S(" "), None>> }

RECURSIVE RoclRowSeqs(_)
RoclRowSeqs(n) ==
    IF n = 0 THEN {<<>>}
    ELSE RoclRowSeqs(n - 1) \cup
         {Append(rs, r) : rs \in {x \in RoclRowSeqs(n - 1) : Len(x) = n - 1},
                          r \in RoclDataPool}

\* the empty rows above the top block: none, or as many as put the first
\* row of the block in row 10
RoclLeadingRows ==
    {<<>>, [i \in 1..(RoclHeaderRows - 1) |-> EmptyRow]}

RoclSheets ==
    ({[name |-> "Roster", rows |-> lead \o top \o body] :
        lead \in RoclLeadingRows, top \in RoclTopBlocks,
        body \in RoclRowSeqs(MaxRoclDataRows)}
     \cup {[name |-> "Roster", rows |-> top \o body] :
        top \in RoclTallBlocks, body \in RoclRowSeqs(MaxRoclDataRows)})
    \ {[name |-> "Roster", rows |-> <<>>]}

RoclStages == {"ROCLCleaningStage", "JSONUniversalCleaningStage"}

IdleRocl ==
    /\ rc_pc = "idle"
    /\ rc_stage = ""
    /\ rc_sheet = [name |-> "", rows |-> <<>>]
    /\ rc_header = [header_row |-> NoHeaderRow, idxs |-> FixedWidthColumns]
    /\ rc_records = <<>>

InitRocl ==
    /\ rc_pc = "call"
    /\ rc_stage \in RoclStages
    /\ rc_sheet \in RoclSheets
    /\ rc_header = [header_row |-> NoHeaderRow, idxs |-> FixedWidthColumns]
    /\ rc_records = <<>>

\* ROCLCleaningStage: sheet_records = self._extract_and_clean(ws)
RoclExtractAndCleanCall ==
    /\ rc_pc = "call"
    /\ rc_stage = "ROCLCleaningStage"
    /\ rc_header' = FindHeaderRowAndIndices(rc_sheet)
    /\ rc_records' = ExtractAndCleanWith(rc_sheet, rc_header')
    /\ rc_pc' = "done"
    /\ UNCHANGED <<rc_stage, rc_sheet>>
    /\ UNCHANGED <<nameVars, schedVars, groupVars, jsonVars, pipeVars, callVars, gridVars, fnVars, guiVars>>

\* JSONUniversalCleaningStage on a workbook of the one sheet:
\* _extract_all_sheets_to_json, then _normalize_and_match_fields
JsonExtractAndNormalizeCall ==
    /\ rc_pc = "call"
    /\ rc_stage = "JSONUniversalCleaningStage"
    /\ rc_records' = NormalizeAndMatchFields(ExtractSheetsFrom(<<rc_sheet>>, 1, <<>>))
    /\ rc_pc' = "done"
    /\ UNCHANGED <<rc_stage, rc_sheet, rc_header>>
    /\ UNCHANGED <<nameVars, schedVars, groupVars, jsonVars, pipeVars, callVars, gridVars, fnVars, guiVars>>

NextRocl == RoclExtractAndCleanCall \/ JsonExtractAndNormalizeCall

(***************************************************************************)
(* Calls of single methods.  fn_arg is what the method is given, fn_out    *)
(* what it returned.                                                       *)
(***************************************************************************)
IdleFn == fn_pc = "idle" /\ fn_arg = <<>> /\ fn_out = <<>>

(***************************************************************************)
(* Inputs of _extract_metadata_from_title_rows: a sheet of one column with *)
(* up to MaxTitleRows title cells, which start at row 1 or at row 9.       *)
(***************************************************************************)
MaxTitleRows == 3

TitleCells ==
    { S("Class 101/ Teacher: Ms A"), S("Teachers: Mr B"), S("Class: 5A"),
      S("Class- 7 Teacher: Zed"), S("Roster"), None }

RECURSIVE TitleColumns(_)
TitleColumns(n) ==
    IF n = 0 THEN {<<>>}
    ELSE TitleColumns(n - 1) \cup
         {Append(rs, <<c>>) : rs \in {x \in TitleColumns(n - 1) : Len(x) = n - 1},
                              c \in TitleCells}

\* the empty rows above the title cells: none, or as many as leave two of
\* the scanned rows
TitleLeadingRows == {<<>>, [i \in 1..(TitleScanRows - 2) |-> <<None>>]}

TitleSheets ==
    {[name |-> "Roster", rows |-> lead \o column] :
        lead \in TitleLeadingRows, column \in TitleColumns(MaxTitleRows)}
    \ {[name |-> "Roster", rows |-> <<>>]}

InitTitle == fn_pc = "call" /\ fn_arg \in TitleSheets /\ fn_out = <<>>

\* class_val, teacher_val = self._extract_metadata_from_title_rows(worksheet)
ExtractMetadataCall ==
    /\ fn_pc = "call"
    /\ fn_out' = ExtractMetadataFromTitleRows(fn_arg)
    /\ fn_pc' = "done"
    /\ UNCHANGED fn_arg
    /\ UNCHANGED <<nameVars, schedVars, groupVars, jsonVars, pipeVars, callVars, gridVars, roclVars, guiVars>>

NextTitle == ExtractMetadataCall

(***************************************************************************)
(* The schedule map of one SCHEDULE sheet                                  *)
(***************************************************************************)
MaxSupervisorRows == 2

ScheduleClassCells == {S("6.1"), S("7.1 / 7.2"), None}

ScheduleSupervisorCells ==
    {S("Ms A\nMr B"), S("Ms  C"), S("Mr D"), S(" \n"), None}

RECURSIVE ScheduleRowSeqs(_)
ScheduleRowSeqs(n) ==
    IF n = 0 THEN {<<>>}
    ELSE ScheduleRowSeqs(n - 1) \cup
         {Append(rs, <<c, t>>) :
            rs \in {x \in ScheduleRowSeqs(n - 1) : Len(x) = n - 1},
            c \in ScheduleClassCells, t \in ScheduleSupervisorCells}

ScheduleSheets ==
    {[name |-> "SCHEDULE", rows |-> <<<<S("Class"), S("Teacher")>>>> \o rs] :
        rs \in ScheduleRowSeqs(MaxSupervisorRows)}

InitScheduleMap == fn_pc = "call" /\ fn_arg \in ScheduleSheets /\ fn_out = <<>>

\* teacher_map = self._build_teacher_map(extracted_json) on the extraction
\* of a workbook holding the one sheet
BuildScheduleMapCall ==
    /\ fn_pc = "call"
    /\ fn_out' = BuildTeacherMap(ExtractSheetsFrom(<<fn_arg>>, 1, <<>>))
    /\ fn_pc' = "done"
    /\ UNCHANGED fn_arg
    /\ UNCHANGED <<nameVars, schedVars, groupVars, jsonVars, pipeVars, callVars, gridVars, roclVars, guiVars>>

NextScheduleMap == BuildScheduleMapCall

(***************************************************************************)
(* A workbook with a sheet that has no name column                         *)
(***************************************************************************)
MaxIsolateRows == 2

\* sheets whose headers resolve none of student_name, first_name, last_name
NamelessSheets ==
    {[name |-> "Staff",
      rows |-> <<<<S("Teacher"), S("Room")>>, <<S("Ms X"), N("12")>>>>],
     [name |-> "Staff",
      rows |-> <<<<S("Teacher"), S("Room")>>, <<None, N("12")>>>>],
     [name |-> "Rooms",
      rows |-> <<<<S("Room"), S("Floor")>>, <<N("12"), N("1")>>>>]}

IsolateHeaders == {<<S("Name"), S("Grade")>>, <<S("Name"), S("Teacher")>>}

IsolateDataRows ==
    {<<S("Ann Lee"), S("6")>>, <<S("Bo Poe"), S("Ms B")>>, <<None, S("7")>>}

RECURSIVE IsolateRowSeqs(_)
IsolateRowSeqs(n) ==
    IF n = 0 THEN {<<>>}
    ELSE IsolateRowSeqs(n - 1) \cup
         {Append(rs, r) : rs \in {x \in IsolateRowSeqs(n - 1) : Len(x) = n - 1},
                          r \in IsolateDataRows}

IsolateRosters ==
    {[name |-> "Roster", rows |-> <<h>> \o rs] :
        h \in IsolateHeaders, rs \in IsolateRowSeqs(MaxIsolateRows) \ {<<>>}}

IsolateSchedules ==
    {<<>>,
     <<[name |-> "Schedule",
        rows |-> <<<<S("Class"), S("Teacher")>>, <<S("6.1"), S("Ms A")>>>>]>>,
     <<[name |-> "Schedule",
        rows |-> <<<<S("Class"), S("Teacher")>>, <<S("6.1"), S("Ms A")>>,
                   <<S("7.2"), S("Mr D")>>>>]>>}

IsolateWorkbooks ==
    {<<a, r>> \o s : a \in NamelessSheets, r \in IsolateRosters, s \in IsolateSchedules}
    \cup
    {<<r, a>> \o s : a \in NamelessSheets, r \in IsolateRosters, s \in IsolateSchedules}

InitIsolate == fn_pc = "call" /\ fn_arg \in IsolateWorkbooks /\ fn_out = <<>>

\* extracted_json = self._extract_all_sheets_to_json(workbook);
\* normalized_records = self._normalize_and_match_fields(extracted_json)
NormalizeWorkbookCall ==
    /\ fn_pc = "call"
    /\ fn_out' = NormalizeAndMatchFields(ExtractSheetsFrom(fn_arg, 1, <<>>))
    /\ fn_pc' = "done"
    /\ UNCHANGED fn_arg
    /\ UNCHANGED <<nameVars, schedVars, groupVars, jsonVars, pipeVars, callVars, gridVars, roclVars, guiVars>>

NextIsolate == NormalizeWorkbookCall

(***************************************************************************)
(* ClassSplittingStage: sheet titles                                       *)
(***************************************************************************)
\* the characters of the class [\\/*?:\[\]]
InvalidTitleChars == {"\\", "/", "*", "?", ":", "[", "]"}

SheetTitleLimit == 31

\* re.sub(r'[\\/*?:\[\]]', '-', cls_str)
RECURSIVE ReplaceInvalidTitleChars(_)
ReplaceInvalidTitleChars(s) ==
    IF s = "" THEN ""
    ELSE (IF Chr(s, 1) \in InvalidTitleChars THEN "-" ELSE Chr(s, 1))
         \o ReplaceInvalidTitleChars(Tail1(s))

\* _make_sheet_name with the slice taken before the prefix is added
MutMakeSheetNameCutsClassOnly(class_value) ==
    LET cleaned == ReplaceInvalidTitleChars(class_value)
    IN "Class " \o SubSeq(cleaned, 1, Min(SheetTitleLimit, Len(cleaned)))

\* _make_sheet_name
MakeSheetName(class_value) ==
    LET cleaned == ReplaceInvalidTitleChars(class_value)
        named == "Class " \o cleaned
    IN SubSeq(named, 1, Min(SheetTitleLimit, Len(named)))

MaxKeyLen == 2

KeyAlphabet == InvalidTitleChars \cup {"A", "6", "-"}

RECURSIVE KeyStrings(_)
KeyStrings(n) ==
    IF n = 0 THEN {""}
    ELSE KeyStrings(n - 1) \cup
         {s \o c : s \in {x \in KeyStrings(n - 1) : Len(x) = n - 1}, c \in KeyAlphabet}

\* a class value of 24 characters: with "Class " it is one short of the limit
LongClassPrefix == "Grade 6 Science Lab Room"

ClassValues ==
    {p \o s : p \in {"", LongClassPrefix}, s \in KeyStrings(MaxKeyLen)}

InitSheetName == fn_pc = "call" /\ fn_arg \in ClassValues /\ fn_out = <<>>

\* title = self._make_sheet_name(cls)
MakeSheetNameCall ==
    /\ fn_pc = "call"
    /\ fn_out' = MakeSheetName(fn_arg)
    /\ fn_pc' = "done"
    /\ UNCHANGED fn_arg
    /\ UNCHANGED <<nameVars, schedVars, groupVars, jsonVars, pipeVars, callVars, gridVars, roclVars, guiVars>>

NextSheetName == MakeSheetNameCall

(***************************************************************************)
(* ClassSplittingStage: the output workbook.  A workbook is the sequence   *)
(* of its sheets in the order they were made; title is the title the       *)
(* method asked the sheet to have.                                         *)
(***************************************************************************)
\* the rows written to the sheet of one class
ClassSheetRows(cls, info) ==
    << <<S("Student Name"), S("Class")>> >>
    \o [i \in 1..Len(info.students) |-> <<S(info.students[i]), S(cls)>>]
    \o << <<S(IF info.teacher # "" THEN "Teacher: " \o info.teacher
             ELSE "Teacher:"), None>>,
          <<S("Advisor:"), None>> >>

\* the sheet Workbook() is created with
DefaultSheet == [title |-> "Sheet", rows |-> <<>>]

\* _create_output_workbook with the classes taken in the order of the dict
MutCreateOutputWorkbookDictOrder(gs) ==
    IF gs = <<>> THEN <<DefaultSheet>>
    ELSE [k \in 1..Len(gs) |->
            [title |-> MakeSheetName(gs[k].cls),
             rows |-> ClassSheetRows(gs[k].cls, gs[k])]]

\* _create_output_workbook
CreateOutputWorkbook(gs) ==
    IF gs = <<>> THEN <<DefaultSheet>>
    ELSE LET keys == Sorted({gs[i].cls : i \in 1..Len(gs)})
         IN [k \in 1..Len(keys) |->
                [title |-> MakeSheetName(keys[k]),
                 rows |-> ClassSheetRows(keys[k],
                                         gs[GroupIndex(gs, keys[k])])]]

MaxOutputRows == 3

OutputClassCells ==
    {S("6/1"), S("6-1"), S(LongClassPrefix \o "6A"), S(LongClassPrefix \o "6B")}

OutputDataRows ==
    {<<None, s, c>> : s \in {S("Bo Poe"), S("Ann Lee")}, c \in OutputClassCells}
    \cup {<<S("Ms A"), S("Ann Lee"), S("6/1")>>,
          <<S("Ms B"), S("Bo Poe"), S("6/1")>>,
          <<S("Ms A"), S("Bo Poe"), S(LongClassPrefix \o "6B")>>}

RECURSIVE OutputRowSeqs(_)
OutputRowSeqs(n) ==
    IF n = 0 THEN {<<>>}
    ELSE OutputRowSeqs(n - 1) \cup
         {Append(rs, r) : rs \in {x \in OutputRowSeqs(n - 1) : Len(x) = n - 1},
                          r \in OutputDataRows}

StandardizedSheets ==
    {[name |-> "Standardized Data",
      rows |-> << <<S("Teacher"), S("Student Name"), S("Class")>> >> \o rs] :
        rs \in OutputRowSeqs(MaxOutputRows)}

InitOutput == fn_pc = "call" /\ fn_arg \in StandardizedSheets /\ fn_out = <<>>

\* groups = self._group_by_class(ws_in, class_idx, teacher_idx, student_idx);
\* wb_out = self._create_output_workbook(groups)
CreateOutputWorkbookCall ==
    /\ fn_pc = "call"
    /\ fn_out' = CreateOutputWorkbook(
                    GroupsFrom(<<>>, fn_arg.rows, 2,
                        FindColumnIndex(fn_arg.rows[1], DefaultMappings.class),
                        FindColumnIndex(fn_arg.rows[1], DefaultMappings.teacher),
                        FindColumnIndex(fn_arg.rows[1], DefaultMappings.student)))
    /\ fn_pc' = "done"
    /\ UNCHANGED fn_arg
    /\ UNCHANGED <<nameVars, schedVars, groupVars, jsonVars, pipeVars, callVars, gridVars, roclVars, guiVars>>

NextOutput == CreateOutputWorkbookCall

(***************************************************************************)
(* ROCLCleaningStage.process: the schedule sheet and the teacher fill-in   *)
(***************************************************************************)
\* s.replace(old, new) for a non-empty old
RECURSIVE Replaced(_, _, _)
Replaced(s, old, new) ==
    IF s = "" THEN ""
    ELSE IF StartsWith(s, old)
         THEN new \o Replaced(SubSeq(s, Len(old) + 1, Len(s)), old, new)
    ELSE Chr(s, 1) \o Replaced(Tail1(s), old, new)

RoclScheduleNames == {"schedule", "schedule "}

RoclSkippedNames == {"schedule", "schedule ", "instructions", "notes"}

RoclScheduleFirstRow == 5
RoclScheduleEndRow == 50

\* the body of "for row_idx in range(5, 50)" of _extract_teacher_map
RoclTeacherMapWithRow(tmap, row) ==
    LET class_val == IF Len(row) > 1 THEN row[2] ELSE None
        teacher_val == IF Len(row) > 4 THEN row[5] ELSE None
        class_str == Strip(Str(class_val))
        teacher_str == Strip(Str(teacher_val))
    IN IF ~Truthy(class_val) \/ ~Truthy(teacher_val) THEN tmap
       ELSE IF class_str = "" \/ teacher_str = "" \/ Lower(class_str) = "class"
            THEN tmap
       ELSE MapPut(tmap, class_str,
                Strip(Replaced(Replaced(teacher_str, "\n", " / "), "  ", " ")))

RECURSIVE RoclTeacherMapFrom(_, _, _)
RoclTeacherMapFrom(tmap, ws, row_idx) ==
    IF row_idx >= RoclScheduleEndRow THEN tmap
    ELSE RoclTeacherMapFrom(RoclTeacherMapWithRow(tmap, RowAt(ws, row_idx)),
                            ws, row_idx + 1)

\* _extract_teacher_map
RoclExtractTeacherMap(sheets) ==
    LET named == Ascending({k \in 1..Len(sheets) :
                    Strip(Lower(sheets[k].name)) \in RoclScheduleNames})
    IN IF named = <<>> THEN <<>>
       ELSE RoclTeacherMapFrom(<<>>, sheets[named[1]], RoclScheduleFirstRow)

\* the loop over teacher_map.items() of _find_teachers_for_class
RECURSIVE RoclGradeTeachers(_, _)
RoclGradeTeachers(tmap, grade_num) ==
    IF tmap = <<>> THEN <<>>
    ELSE (IF \/ StartsWith(tmap[1].key, grade_num \o ".")
             \/ Contains("Grade " \o grade_num, tmap[1].key)
          THEN <<tmap[1].val>> ELSE <<>>)
         \o RoclGradeTeachers(Tail(tmap), grade_num)

\* _find_teachers_for_class
FindTeachersForClass(class_str, tmap) ==
    IF MapHas(tmap, class_str) THEN MapGet(tmap, class_str)
    ELSE LET grade_num == FirstDigitRun(class_str)
         IN IF grade_num = "" THEN ""
            ELSE Join(" / ", RoclGradeTeachers(tmap, grade_num))

\* "if teacher_map: for record in sheet_records: ..." of process
WithMapTeachers(records, tmap) ==
    IF tmap = <<>> THEN records
    ELSE [i \in 1..Len(records) |->
            LET teachers == FindTeachersForClass(Strip(records[i].class), tmap)
            IN IF teachers # "" THEN [records[i] EXCEPT !.teacher = teachers]
               ELSE records[i]]

\* the sheet loop of process from the k-th sheet on
RECURSIVE RoclRecordsFrom(_, _, _)
RoclRecordsFrom(sheets, k, tmap) ==
    IF k > Len(sheets) THEN <<>>
    ELSE (IF Strip(Lower(sheets[k].name)) \in RoclSkippedNames THEN <<>>
          ELSE WithMapTeachers(
                  ExtractAndCleanWith(sheets[k], FindHeaderRowAndIndices(sheets[k])),
                  tmap))
         \o RoclRecordsFrom(sheets, k + 1, tmap)

\* all_cleaned_records of ROCLCleaningStage.process
RoclProcessRecords(sheets) ==
    RoclRecordsFrom(sheets, 1, RoclExtractTeacherMap(sheets))

MaxFillRows == 2

FillRosterTops ==
    {<< <<S("Name"), S("Class"), S("Teacher")>> >>,
     << <<S("Teachers: Mr B"), None, None>>,
        <<S("Name"), S("Class"), None>> >>}

FillRosterRows ==
    {<<S("Ann Lee"), S("6.1"), S("Ms Own")>>,
     <<S("Bo Poe"), S("7th Grade"), None>>,
     <<S("Cy Day"), S("9"), None>>}

RECURSIVE FillRosterSeqs(_)
FillRosterSeqs(n) ==
    IF n = 0 THEN {<<>>}
    ELSE FillRosterSeqs(n - 1) \cup
         {Append(rs, r) : rs \in {x \in FillRosterSeqs(n - 1) : Len(x) = n - 1},
                          r \in FillRosterRows}

FillRosters ==
    {[name |-> "Roster", rows |-> top \o rs] :
        top \in FillRosterTops, rs \in FillRosterSeqs(MaxFillRows) \ {<<>>}}

\* rows 1..4 of a schedule sheet: three title rows and the table header
FillScheduleTop ==
    << <<S("Picture Day"), None, None, None, None>>,
       <<None, None, None, None, None>>,
       <<None, None, None, None, None>>,
       <<S("Time"), S("Class"), S("Room"), S("Count"), S("Teacher")>> >>

FillScheduleRows ==
    {<<None, S("6.1"), None, None, S("Ms A")>>,
     <<None, S("7.1"), None, None, S("Mr D\nMs  E")>>,
     <<None, S("7.2"), None, None, S("Ms F")>>,
     <<None, S("Class"), None, None, S("Teacher")>>}

RECURSIVE FillScheduleSeqs(_)
FillScheduleSeqs(n) ==
    IF n = 0 THEN {<<>>}
    ELSE FillScheduleSeqs(n - 1) \cup
         {Append(rs, r) : rs \in {x \in FillScheduleSeqs(n - 1) : Len(x) = n - 1},
                          r \in FillScheduleRows}

FillSchedules ==
    {<<>>} \cup
    {<<[name |-> "Schedule ", rows |-> FillScheduleTop \o rs]>> :
        rs \in FillScheduleSeqs(MaxFillRows)}

FillWorkbooks ==
    {<<r>> \o s : r \in FillRosters, s \in FillSchedules}
    \cup {s \o <<r>> : r \in FillRosters, s \in FillSchedules}

InitFill == fn_pc = "call" /\ fn_arg \in FillWorkbooks /\ fn_out = <<>>

\* ROCLCleaningStage.process up to all_cleaned_records
RoclProcessCall ==
    /\ fn_pc = "call"
    /\ fn_out' = RoclProcessRecords(fn_arg)
    /\ fn_pc' = "done"
    /\ UNCHANGED fn_arg
    /\ UNCHANGED <<nameVars, schedVars, groupVars, jsonVars, pipeVars, callVars, gridVars, roclVars, guiVars>>

NextFill == RoclProcessCall

(***************************************************************************)
(* PictureDayCleaningStage.process on one workbook                         *)
(***************************************************************************)
MaxPictureRows == 2

PictureStudentRows ==
    {<<S("Ann"), S("Lee"), S("6th Grade")>>,
     <<S("Bo"), S("Poe"), S("9th Grade")>>,
     <<S("Cy"), S("Day"), None>>,
     <<S("Di"), S("Fox"), S("7th Grade")>>}

RECURSIVE PictureRowSeqs(_)
PictureRowSeqs(n) ==
    IF n = 0 THEN {<<>>}
    ELSE PictureRowSeqs(n - 1) \cup
         {Append(rs, r) : rs \in {x \in PictureRowSeqs(n - 1) : Len(x) = n - 1},
                          r \in PictureStudentRows}

PictureGradeSheets ==
    {[name |-> "6th Grade", rows |-> <<GradeHeader>> \o rs] :
        rs \in PictureRowSeqs(MaxPictureRows) \ {<<>>}}

PictureSchedules ==
    {<<>>,
     <<[name |-> "Schedule ",
        rows |-> ScheduleTop \o
                 << <<S("9:00"), S("6.1"), None, N("20"), S("Ms. Roy")>>,
                    <<S("9:20"), S("6.2"), None, N("21"), S("Mr. Ito")>> >>]>>,
     <<[name |-> "Schedule ",
        rows |-> ScheduleTop \o
                 << <<S("9:00"), S("7.1"), None, N("20"), S("Ms. Diaz")>> >>]>>,
     <<[name |-> "Schedule ", rows |-> ScheduleTop]>>}

PictureDayWorkbooks ==
    {<<g>> \o s : g \in PictureGradeSheets, s \in PictureSchedules}

InitPicture == fn_pc = "call" /\ fn_arg \in PictureDayWorkbooks /\ fn_out = <<>>

\* PictureDayCleaningStage.process called once on a stage of its own
PictureDayProcessCall ==
    /\ fn_pc = "call"
    /\ fn_out' = PictureDayProcess(fn_arg)
    /\ fn_pc' = "done"
    /\ UNCHANGED fn_arg
    /\ UNCHANGED <<nameVars, schedVars, groupVars, jsonVars, pipeVars, callVars, gridVars, roclVars, guiVars>>

NextPicture == PictureDayProcessCall

(***************************************************************************)
(* ClassRosterGUI: the two start buttons.  Every handler runs on the GUI   *)
(* thread and is one step; what the user picks in a dialog is an input of  *)
(* the step.  A ProcessThread is in flight from start() until the slot     *)
(* connected to its finished signal has run.                               *)
(***************************************************************************)
MaxRuns == 2

\* what QFileDialog.getOpenFileName / getSaveFileName return ("": cancelled)
OpenFileNames == {"", "a.xlsx", "b.xls"}
SaveFileNames == {"", "out.xlsx", "out"}

EndsWith(s, suffix) ==
    Len(suffix) <= Len(s) /\ SubSeq(s, Len(s) - Len(suffix) + 1, Len(s)) = suffix

\* Path(p).stem for a file name without directories
StemOf(name) ==
    LET dots == {i \in 2..Len(name) : Chr(name, i) = "."}
    IN IF dots = {} THEN name
       ELSE SubSeq(name, 1, (CHOOSE i \in dots : \A j \in dots : j <= i) - 1)

IdleGui ==
    /\ raw_source_label = ""
    /\ std_output_label = ""
    /\ split_source_label = ""
    /\ split_output_label = ""
    /\ clean_btn = FALSE
    /\ split_btn = FALSE
    /\ clean_running = 0
    /\ split_running = 0

\* init_ui: empty labels, both start buttons disabled
InitGui == IdleGui

\* check_cleaning_ready on the label texts given
CleaningReady(raw_text, std_text) == raw_text # "" /\ std_text # ""

\* check_splitting_ready on the label texts given
SplittingReady(source_text, output_text) == source_text # "" /\ output_text # ""

\* browse_raw_source
BrowseRawSource ==
    /\ \E file_path \in OpenFileNames :
        IF file_path # ""
        THEN /\ raw_source_label' = file_path
             /\ std_output_label' = StemOf(file_path) \o "_STANDARDIZED.xlsx"
             /\ clean_btn' = CleaningReady(raw_source_label', std_output_label')
        ELSE UNCHANGED <<raw_source_label, std_output_label, clean_btn>>
    /\ UNCHANGED <<split_source_label, split_output_label, split_btn,
                   clean_running, split_running>>
    /\ UNCHANGED <<nameVars, schedVars, groupVars, jsonVars, pipeVars, callVars, gridVars, roclVars, fnVars>>

\* browse_std_output
BrowseStdOutput ==
    /\ \E file_path \in SaveFileNames :
        IF file_path # ""
        THEN /\ std_output_label' =
                    IF EndsWith(file_path, ".xlsx") THEN file_path
                    ELSE file_path \o ".xlsx"
             /\ clean_btn' = CleaningReady(raw_source_label, std_output_label')
        ELSE UNCHANGED <<std_output_label, clean_btn>>
    /\ UNCHANGED <<raw_source_label, split_source_label, split_output_label,
                   split_btn, clean_running, split_running>>
    /\ UNCHANGED <<nameVars, schedVars, groupVars, jsonVars, pipeVars, callVars, gridVars, roclVars, fnVars>>

\* process_cleaning, the slot of clean_btn.clicked: a disabled button emits
\* no click.  exists is Path(std_file).exists(), overwrite the user's reply.
ProcessCleaning ==
    /\ clean_btn
    /\ clean_running < MaxRuns
    /\ \E exists \in BOOLEAN, overwrite \in BOOLEAN :
        IF raw_source_label = "" \/ std_output_label = ""
        THEN UNCHANGED <<clean_btn, clean_running>>
        ELSE IF exists /\ ~overwrite
        THEN UNCHANGED <<clean_btn, clean_running>>
        ELSE /\ clean_btn' = FALSE
             /\ clean_running' = clean_running + 1
    /\ UNCHANGED <<raw_source_label, std_output_label, split_source_label,
                   split_output_label, split_btn, split_running>>
    /\ UNCHANGED <<nameVars, schedVars, groupVars, jsonVars, pipeVars, callVars, gridVars, roclVars, fnVars>>

\* on_cleaning_finished, the slot of a cleaning thread's finished signal
OnCleaningFinished ==
    /\ clean_running > 0
    /\ \E success \in BOOLEAN :
        IF success
        THEN /\ split_source_label' = std_output_label
             /\ split_output_label' = StemOf(std_output_label) \o "_BY_CLASS.xlsx"
             /\ split_btn' = SplittingReady(split_source_label', split_output_label')
        ELSE UNCHANGED <<split_source_label, split_output_label, split_btn>>
    /\ clean_btn' = TRUE
    /\ clean_running' = clean_running - 1
    /\ UNCHANGED <<raw_source_label, std_output_label, split_running>>
    /\ UNCHANGED <<nameVars, schedVars, groupVars, jsonVars, pipeVars, callVars, gridVars, roclVars, fnVars>>

\* browse_split_source
BrowseSplitSource ==
    /\ \E file_path \in OpenFileNames :
        IF file_path # ""
        THEN /\ split_source_label' = file_path
             /\ std_output_label' =
                    IF std_output_label = "" THEN file_path ELSE std_output_label
             /\ split_output_label' = StemOf(file_path) \o "_BY_CLASS.xlsx"
             /\ split_btn' = SplittingReady(split_source_label', split_output_label')
        ELSE UNCHANGED <<split_source_label, std_output_label,
                         split_output_label, split_btn>>
    /\ UNCHANGED <<raw_source_label, clean_btn, clean_running, split_running>>
    /\ UNCHANGED <<nameVars, schedVars, groupVars, jsonVars, pipeVars, callVars, gridVars, roclVars, fnVars>>

\* browse_split_output
BrowseSplitOutput ==
    /\ \E file_path \in SaveFileNames :
        IF file_path # ""
        THEN /\ split_output_label' =
                    IF EndsWith(file_path, ".xlsx") THEN file_path
                    ELSE file_path \o ".xlsx"
             /\ split_btn' = SplittingReady(split_source_label, split_output_label')
        ELSE UNCHANGED <<split_output_label, split_btn>>
    /\ UNCHANGED <<raw_source_label, std_output_label, split_source_label,
                   clean_btn, clean_running, split_running>>
    /\ UNCHANGED <<nameVars, schedVars, groupVars, jsonVars, pipeVars, callVars, gridVars, roclVars, fnVars>>

\* process_splitting, the slot of split_btn.clicked
ProcessSplitting ==
    /\ split_btn
    /\ split_running < MaxRuns
    /\ \E exists \in BOOLEAN, overwrite \in BOOLEAN :
        IF split_source_label = "" \/ split_output_label = ""
        THEN UNCHANGED <<split_btn, split_running>>
        ELSE IF exists /\ ~overwrite
        THEN UNCHANGED <<split_btn, split_running>>
        ELSE /\ split_btn' = FALSE
             /\ split_running' = split_running + 1
    /\ UNCHANGED <<raw_source_label, std_output_label, split_source_label,
                   split_output_label, clean_btn, clean_running>>
    /\ UNCHANGED <<nameVars, schedVars, groupVars, jsonVars, pipeVars, callVars, gridVars, roclVars, fnVars>>

\* on_splitting_finished, the slot of a splitting thread's finished signal
OnSplittingFinished ==
    /\ split_running > 0
    /\ split_btn' = TRUE
    /\ split_running' = split_running - 1
    /\ UNCHANGED <<raw_source_label, std_output_label, split_source_label,
                   split_output_label, clean_btn, clean_running>>
    /\ UNCHANGED <<nameVars, schedVars, groupVars, jsonVars, pipeVars, callVars, gridVars, roclVars, fnVars>>

NextGui ==
    \/ BrowseRawSource \/ BrowseStdOutput \/ ProcessCleaning \/ OnCleaningFinished
    \/ BrowseSplitSource \/ BrowseSplitOutput \/ ProcessSplitting
    \/ OnSplittingFinished

(***************************************************************************)
(* Specifications                                                          *)
(***************************************************************************)
\* repeated name cleaning
InitSpecName == InitName /\ IdleSched /\ IdleGroup /\ IdleJson /\ IdlePipe /\ IdleCalls /\ IdleGrid /\ IdleRocl /\ IdleFn /\ IdleGui
SpecName == InitSpecName /\ [][NextName]_vars

\* the schedule map and its lookup
InitSpecSched == IdleName /\ InitSched /\ IdleGroup /\ IdleJson /\ IdlePipe /\ IdleCalls /\ IdleGrid /\ IdleRocl /\ IdleFn /\ IdleGui
SpecSched == InitSpecSched /\ [][NextSched]_vars

\* grouping the rows of a worksheet by class
InitSpecGroup == IdleName /\ IdleSched /\ InitGroup /\ IdleJson /\ IdlePipe /\ IdleCalls /\ IdleGrid /\ IdleRocl /\ IdleFn /\ IdleGui
SpecGroup == InitSpecGroup /\ [][NextGroup]_vars

\* the JSON-first stage run on one workbook
InitSpecJson == IdleName /\ IdleSched /\ IdleGroup /\ InitJson /\ IdlePipe /\ IdleCalls /\ IdleGrid /\ IdleRocl /\ IdleFn /\ IdleGui
SpecJson == InitSpecJson /\ [][NextJson]_vars

\* one run of ProcessingPipeline.execute
InitSpecPipe == IdleName /\ IdleSched /\ IdleGroup /\ IdleJson /\ InitPipe /\ IdleCalls /\ IdleGrid /\ IdleRocl /\ IdleFn /\ IdleGui
SpecPipe == InitSpecPipe /\ [][NextPipe]_vars

\* two concurrent calls of a cleaning stage's process()
InitSpecCalls == IdleName /\ IdleSched /\ IdleGroup /\ IdleJson /\ IdlePipe /\ InitCalls /\ IdleGrid /\ IdleRocl /\ IdleFn /\ IdleGui
SpecCalls == InitSpecCalls /\ [][NextCalls]_vars

\* the calls of _is_grid_format
InitSpecGrid == IdleName /\ IdleSched /\ IdleGroup /\ IdleJson /\ IdlePipe /\ IdleCalls /\ InitGrid /\ IdleRocl /\ IdleFn /\ IdleGui
SpecGrid == InitSpecGrid /\ [][NextGrid]_vars

\* one worksheet given to ROCLCleaningStage or to JSONUniversalCleaningStage
InitSpecRocl == IdleName /\ IdleSched /\ IdleGroup /\ IdleJson /\ IdlePipe /\ IdleCalls /\ IdleGrid /\ InitRocl /\ IdleFn /\ IdleGui
SpecRocl == InitSpecRocl /\ [][NextRocl]_vars

\* the calls of JSONUniversalCleaningStage._extract_metadata_from_title_rows
InitSpecTitle == IdleName /\ IdleSched /\ IdleGroup /\ IdleJson /\ IdlePipe /\ IdleCalls /\ IdleGrid /\ IdleRocl /\ InitTitle /\ IdleGui
SpecTitle == InitSpecTitle /\ [][NextTitle]_vars

InitSpecScheduleMap == IdleName /\ IdleSched /\ IdleGroup /\ IdleJson /\ IdlePipe /\ IdleCalls /\ IdleGrid /\ IdleRocl /\ InitScheduleMap /\ IdleGui
SpecScheduleMap == InitSpecScheduleMap /\ [][NextScheduleMap]_vars

InitSpecIsolate == IdleName /\ IdleSched /\ IdleGroup /\ IdleJson /\ IdlePipe /\ IdleCalls /\ IdleGrid /\ IdleRocl /\ InitIsolate /\ IdleGui
SpecIsolate == InitSpecIsolate /\ [][NextIsolate]_vars

InitSpecSheetName == IdleName /\ IdleSched /\ IdleGroup /\ IdleJson /\ IdlePipe /\ IdleCalls /\ IdleGrid /\ IdleRocl /\ InitSheetName /\ IdleGui
SpecSheetName == InitSpecSheetName /\ [][NextSheetName]_vars

InitSpecOutput == IdleName /\ IdleSched /\ IdleGroup /\ IdleJson /\ IdlePipe /\ IdleCalls /\ IdleGrid /\ IdleRocl /\ InitOutput /\ IdleGui
SpecOutput == InitSpecOutput /\ [][NextOutput]_vars

InitSpecFill == IdleName /\ IdleSched /\ IdleGroup /\ IdleJson /\ IdlePipe /\ IdleCalls /\ IdleGrid /\ IdleRocl /\ InitFill /\ IdleGui
SpecFill == InitSpecFill /\ [][NextFill]_vars

InitSpecPicture == IdleName /\ IdleSched /\ IdleGroup /\ IdleJson /\ IdlePipe /\ IdleCalls /\ IdleGrid /\ IdleRocl /\ InitPicture /\ IdleGui
SpecPicture == InitSpecPicture /\ [][NextPicture]_vars

\* the main window: browsing, starting and finishing runs
InitSpecGui == IdleName /\ IdleSched /\ IdleGroup /\ IdleJson /\ IdlePipe /\ IdleCalls /\ IdleGrid /\ IdleRocl /\ IdleFn /\ InitGui
SpecGui == InitSpecGui /\ [][NextGui]_vars

(***************************************************************************)
(* Properties                                                              *)
(***************************************************************************)
\* the trimmed non-empty parts of a class code that contains "/"
PartsOf(class_code) ==
    LET parts == Split(class_code, "/")
    IN {Strip(parts[i]) : i \in 1..Len(parts)} \ {""}

\* the mapping writes key k: it carries k as its class, or as one of the parts
Writes(mapping, k) ==
    \/ mapping.class = k
    \/ Contains("/", mapping.class) /\ k \in PartsOf(mapping.class)

\* the place in sched_rows of the last mapping that wrote k (0: none)
LastWriter(k) ==
    LET ws == {j \in 1..Len(sched_rows) : Writes(sched_rows[j], k)}
    IN IF ws = {} THEN 0 ELSE CHOOSE j \in ws : \A x \in ws : x <= j

\* C3 as stated: for every key of the teacher map that contains "/", each
\* trimmed non-empty part of the key is a key too and maps to the same
\* supervisor as the composite key, whatever rows were processed.
C3_PartsShareSupervisor ==
    \A i \in 1..Len(teacher_map) :
        Contains("/", teacher_map[i].key) =>
            \A part \in PartsOf(teacher_map[i].key) :
                /\ MapHas(teacher_map, part)
                /\ MapGet(teacher_map, part) = teacher_map[i].val

\* C3 amended: every trimmed non-empty part of a composite key is a key of
\* the map, and it maps to the composite key's supervisor unless a mapping
\* processed after the last one carrying the composite key wrote the part
\* again (the last write to a key wins).
C3_PartsPresentLastWriteWins ==
    \A i \in 1..Len(teacher_map) :
        Contains("/", teacher_map[i].key) =>
            \A part \in PartsOf(teacher_map[i].key) :
                /\ MapHas(teacher_map, part)
                /\ LastWriter(part) = LastWriter(teacher_map[i].key)
                      => MapGet(teacher_map, part) = teacher_map[i].val

\* C3 witness: "8.3 / 8.1" was processed and both parts carry its supervisor
C3_Witness ==
    /\ MapHas(teacher_map, "8.3 / 8.1")
    /\ MapHas(teacher_map, "8.3") /\ MapHas(teacher_map, "8.1")
    /\ MapGet(teacher_map, "8.3") = MapGet(teacher_map, "8.3 / 8.1")
    /\ MapGet(teacher_map, "8.1") = MapGet(teacher_map, "8.3 / 8.1")
    /\ Len(sched_rows) > 1

\* the first run of digits of q, stated by its end points
C4_DigitsOf(q) ==
    LET ds == {i \in 1..Len(q) : Chr(q, i) \in DigitChars}
    IN IF ds = {} THEN ""
       ELSE LET first == CHOOSE i \in ds : \A x \in ds : i <= x
                last == CHOOSE j \in ds :
                            /\ j >= first
                            /\ \A x \in first..j : x \in ds
                            /\ (j + 1) \notin ds
            IN SubSeq(q, first, last)

\* the supervisors at the given places of the map, in map order, joined
RECURSIVE C4_JoinAt(_, _)
C4_JoinAt(m, places) ==
    IF places = {} THEN ""
    ELSE LET least == CHOOSE i \in places : \A x \in places : i <= x
             rest == places \ {least}
         IN IF rest = {} THEN m[least].val
            ELSE m[least].val \o " / " \o C4_JoinAt(m, rest)

C4_Expected(query, m) ==
    LET q == Strip(query)
        g == C4_DigitsOf(q)
        matching == {i \in 1..Len(m) :
                        m[i].key = g \/ StartsWith(m[i].key, g \o ".")}
        firsts == {i \in matching :
                        \A j \in matching : j < i => m[j].val # m[i].val}
    IN IF \E i \in 1..Len(m) : m[i].key = q
       THEN m[CHOOSE i \in 1..Len(m) : m[i].key = q].val
       ELSE IF g = "" THEN ""
       ELSE C4_JoinAt(m, firsts)

\* C4: _lookup_teacher returns map[query] when the trimmed query is a key;
\* otherwise the distinct supervisors of the keys that start with the
\* query's first digit run followed by "." or equal it, joined with " / "
\* in map order; and "" when the query has no digits or no key matches.
C4_LookupExactThenGrade ==
    lk_done => lk_result = C4_Expected(lk_query, teacher_map)

\* C4 witness: the map {6.1: Smith, 6.2: Jones} asked for "6th Grade"
C4_Witness ==
    /\ lk_done
    /\ teacher_map = <<[key |-> "6.1", val |-> "Smith"],
                       [key |-> "6.2", val |-> "Jones"]>>
    /\ lk_query = "6th Grade"
    /\ lk_result = "Smith / Jones"

\* C5: name cleanup is idempotent: every further _clean_name pass (of the
\* JSON-universal stage, and of the ROCL stage) returns what the first
\* pass returned.
C5_CleanNameIdempotent ==
    \A i \in 2..Len(cn_out) : cn_out[i] = cn_out[1]

\* C5 witness: MCDONALD cleaned to McDonald, and again to McDonald
C5_Witness ==
    /\ cn_stage = "json"
    /\ cn_input = "MCDONALD"
    /\ Len(cn_out) >= 2
    /\ cn_out[1] = "McDonald" /\ cn_out[2] = "McDonald"

\* the rows read so far that the loop did not skip
Consumed == {i \in 1..Len(grp_rows) :
                Truthy(grp_rows[i].cls) /\ Truthy(grp_rows[i].student)}

RowClass(i) == Strip(Str(grp_rows[i].cls))
RowStudent(i) == Strip(Str(grp_rows[i].student))
RowTeacher(i) ==
    IF Truthy(grp_rows[i].teacher) THEN Strip(Str(grp_rows[i].teacher)) ELSE ""

\* C6: in the returned groups, the student list of each class holds every
\* trimmed student value of the class's rows exactly once: rows equal after
\* trimming give one entry, names that differ (if only in letter case)
\* give distinct entries.
C6_DedupByExactTrimmedString ==
    grp_pc = "done" =>
        /\ \A i \in Consumed : \E k \in 1..Len(grp_result) :
                grp_result[k].cls = RowClass(i)
        /\ \A k \in 1..Len(grp_result) :
            LET names == grp_result[k].students
            IN /\ {names[x] : x \in 1..Len(names)} =
                      {RowStudent(i) : i \in {j \in Consumed :
                                                RowClass(j) = grp_result[k].cls}}
               /\ \A x, y \in 1..Len(names) : names[x] = names[y] => x = y

\* C6 witness: two rows equal after trimming only, or equal up to letter
\* case only, were grouped into one class
C6_Witness ==
    /\ grp_pc = "done"
    /\ Len(grp_result) = 1
    /\ \E i, j \in Consumed :
        /\ i < j
        /\ RowClass(i) = RowClass(j)
        /\ grp_rows[i].cls # grp_rows[j].cls
        /\ \/ /\ RowStudent(i) = RowStudent(j)
              /\ grp_rows[i].student # grp_rows[j].student
              /\ Len(grp_result[1].students) = 1
           \/ /\ RowStudent(i) # RowStudent(j)
              /\ Lower(RowStudent(i)) = Lower(RowStudent(j))
              /\ Len(grp_result[1].students) = 2

\* the teacher of the first of the given rows that carries a teacher
FirstTeacher(rows) ==
    LET with == {i \in rows : RowTeacher(i) # ""}
    IN IF with = {} THEN ""
       ELSE RowTeacher(CHOOSE i \in with : \A x \in with : i <= x)

\* C9 as stated: the stored teacher of a class is the teacher of the first
\* row of that class that carries a non-empty teacher.
C9_FirstRowOfClassWins ==
    \A k \in 1..Len(groups) :
        groups[k].teacher =
            FirstTeacher({i \in 1..Len(grp_rows) :
                            /\ Truthy(grp_rows[i].cls)
                            /\ RowClass(i) = groups[k].cls})

\* C9 amended: at every point of the loop, and in the returned groups, the
\* stored teacher of a class is the trimmed teacher of the first row of
\* that class that is not skipped (its student cell is not empty) and
\* carries a non-empty teacher; so once set it never changes.
C9_FirstGroupedRowWins ==
    /\ \A k \in 1..Len(groups) :
        groups[k].teacher =
            FirstTeacher({i \in Consumed : RowClass(i) = groups[k].cls})
    /\ grp_pc = "done" =>
        \A k \in 1..Len(groups) : grp_result[k].teacher = groups[k].teacher

\* C9 witness: a class took its teacher from its first row and a later row
\* of the class carried another teacher
C9_Witness ==
    /\ grp_pc = "done"
    /\ \E i, j \in Consumed :
        /\ i < j
        /\ RowClass(i) = RowClass(j)
        /\ RowTeacher(i) # "" /\ RowTeacher(j) # ""
        /\ RowTeacher(i) # RowTeacher(j)
        /\ \E k \in 1..Len(grp_result) :
            /\ grp_result[k].cls = RowClass(i)
            /\ grp_result[k].teacher = RowTeacher(i)

\* C10 as stated: the returned groups hold no empty class key and no empty
\* student name.
C10_NoEmptyKeyOrStudent ==
    grp_pc = "done" =>
        \A k \in 1..Len(grp_result) :
            /\ grp_result[k].cls # ""
            /\ \A x \in 1..Len(grp_result[k].students) :
                    grp_result[k].students[x] # ""

\* (person, group, supervisor) of each normalized record, in order
Brief(records) ==
    [k \in 1..Len(records) |->
        <<records[k].student_name, records[k].class_id, records[k].teacher>>]

C1_Workbook ==
    << [name |-> "Roster",
        rows |-> << <<S("Name"), S("Class"), S("Teacher")>>,
                    <<S("john doe"), S("6.1"), S("MS SMITH")>>,
                    <<S("JANE ROE"), S("6.1"), None>> >>] >>

\* C1: the stage run on a workbook whose only sheet is [Name, Class,
\* Teacher], (john doe, 6.1, MS SMITH), (JANE ROE, 6.1, empty) ends with
\* exactly the records (John Doe, 6.1, Ms Smith), (Jane Roe, 6.1, "").
C1_StandardSheetTwoRecords ==
    (js_pc = "done" /\ workbook = C1_Workbook) =>
        Brief(normalized_records) =
            << <<"John Doe", "6.1", "Ms Smith">>, <<"Jane Roe", "6.1", "">> >>

C2_Workbook ==
    << [name |-> "Roster",
        rows |-> << <<None, S("Class A"), S("Class B")>>,
                    <<S("Teacher"), S("Ms X"), S("Ms Y")>>,
                    <<S("Student 1"), S("Tom"), S("Amy")>> >>] >>

\* C2: the stage run on a workbook whose only sheet is the grid
\* [empty, Class A, Class B], [Teacher, Ms X, Ms Y], [Student 1, Tom, Amy]
\* ends with exactly the records (Tom, Class A, Ms X), (Amy, Class B, Ms Y).
C2_GridSheetTwoRecords ==
    (js_pc = "done" /\ workbook = C2_Workbook) =>
        Brief(normalized_records) =
            << <<"Tom", "Class A", "Ms X">>, <<"Amy", "Class B", "Ms Y">> >>

\* the name holds a denylist keyword, in whatever letter case
Denylisted(sheet_name) ==
    \E keyword \in SkipKeywords :
        \E p \in 1..Len(sheet_name) : LitAt(sheet_name, p, keyword)

\* the sheet names of the workbooks that hold a denylist keyword
DenylistedNames ==
    {sheet_name \in MainSheetNames \cup {c.name : c \in CompanionSheets} :
        Denylisted(sheet_name)}

\* the trimmed texts of the non-empty cells of a worksheet
CellTexts(ws) ==
    {Strip(Str(ws.rows[i][j])) :
        <<i, j>> \in {p \in (1..Len(ws.rows)) \X (1..WidthOf(ws)) :
                        Truthy(ws.rows[p[1]][p[2]])}} \ {""}

\* the texts that occur in the workbook's denylisted sheets alone
DeniedTexts ==
    UNION {CellTexts(workbook[k]) :
            k \in {x \in 1..Len(workbook) :
                      workbook[x].name \in DenylistedNames}}
    \ UNION {CellTexts(workbook[k]) :
            k \in {x \in 1..Len(workbook) :
                      workbook[x].name \notin DenylistedNames}}

\* no text of denied is a name, class or teacher of a record or a teacher
\* of the schedule map
NoDeniedText(denied) ==
    /\ \A r \in 1..Len(normalized_records) :
        /\ normalized_records[r].student_name \notin denied
        /\ normalized_records[r].class_id \notin denied
        /\ normalized_records[r].teacher \notin denied
    /\ \A e \in 1..Len(js_teacher_map) : js_teacher_map[e].val \notin denied

\* C7: a sheet whose name holds a denylist keyword in any letter case is
\* listed in skipped_sheets once the sheet loop has passed it, is never in
\* raw_data nor in processed_sheets, is the source of no record, and no
\* text found in denylisted sheets alone is a name, class or teacher of a
\* record or a teacher of the schedule map.
C7_DenylistedSheetSkipped ==
    \A k \in 1..Len(workbook) :
        workbook[k].name \in DenylistedNames =>
            /\ ~MapHas(raw_data, workbook[k].name)
            /\ ~InSeq(workbook[k].name, processed_sheets)
            /\ (js_pc # "extract" \/ k <= js_i) =>
                    InSeq(workbook[k].name, skipped_sheets)
            /\ \A r \in 1..Len(normalized_records) :
                normalized_records[r].source_sheet # workbook[k].name
            /\ NoDeniedText(DeniedTexts)

\* a run has ended with records although the workbook holds a sheet whose
\* name has a denylist keyword written with capital letters
C7_Witness ==
    /\ js_pc = "done"
    /\ normalized_records # <<>>
    /\ \E k \in 1..Len(workbook) :
        /\ workbook[k].name \in DenylistedNames
        /\ workbook[k].name # Lower(workbook[k].name)
        /\ InSeq(workbook[k].name, skipped_sheets)

\* C8: every normalized record has a non-empty student_name.
C8_RecordsHaveStudentName ==
    \A r \in 1..Len(normalized_records) :
        normalized_records[r].student_name # ""

\* how many records stem from a sheet
RecordsFrom(sheet_name) ==
    Cardinality({r \in 1..Len(normalized_records) :
                    normalized_records[r].source_sheet = sheet_name})

\* a run has ended in which a student sheet gave records for some of its
\* rows and dropped another row that has no usable name
C8_Witness ==
    /\ js_pc = "done"
    /\ \E s \in 1..Len(raw_data) :
        /\ ~raw_data[s].val.is_schedule
        /\ RecordsFrom(raw_data[s].key) > 0
        /\ \E i \in 1..Len(raw_data[s].val.rows) :
            RawStudentName(raw_data[s].val.rows[i],
                           MatchHeadersToFields(raw_data[s].val.headers)) = ""

\* C11: execute never lets an exception out; a run in which loading, a
\* stage or saving raised returns exactly (False, "Error: " + message, {})
\* and a run that returns a failure hands back the empty dict.
C11_FailureOutcomeOnly ==
    /\ pl_pc # "raised"
    /\ pl_pc = "returned" =>
        IF pl_exc.cls = "" THEN pl_outcome.success
        ELSE pl_outcome = [success |-> FALSE,
                           message |-> "Error: " \o pl_exc.msg,
                           data |-> EmptyData]
    /\ (pl_pc = "returned" /\ ~pl_outcome.success) =>
            pl_exc.cls # "" /\ pl_saved = Absent

\* a run has returned the failure outcome for an exception that is no
\* ValueError, raised after the data dict had been filled
C11_Witness ==
    /\ pl_pc = "returned"
    /\ pl_exc.cls = "PermissionError"
    /\ pl_data.row_count # Absent
    /\ pl_outcome.data = EmptyData

\* the records JSON-universal normalization gives for the source workbook
SourceRecords ==
    NormalizeAndMatchFields(ExtractSheetsFrom(pl_source.sheets, 1, <<>>))

\* C12: when the JSON-universal stage normalizes the source to zero
\* records, its process returns normally with cleaned_record_count = 0,
\* and execute, unless the save itself fails, returns success = True with
\* that count.
C12_ZeroRecordsIsSuccess ==
    (/\ pl_stages = <<"JSONUniversalCleaningStage">>
     /\ pl_source # NoFile
     /\ pl_pc \in {"stages", "returned"}
     /\ SourceRecords = <<>>) =>
        /\ pl_k = 1 => pl_data.cleaned_record_count = IntOf(0)
        /\ pl_exc.cls # "ValueError"
        /\ (pl_pc = "returned" /\ pl_writable) =>
            /\ pl_outcome.success
            /\ pl_outcome.data.cleaned_record_count = IntOf(0)

\* a JSON-universal run over a source without records has returned success
C12_Witness ==
    /\ pl_stages = <<"JSONUniversalCleaningStage">>
    /\ pl_pc = "returned"
    /\ pl_source # NoFile
    /\ pl_data.workbook = PyNone
    /\ pl_outcome.success
    /\ pl_outcome.data.cleaned_record_count = IntOf(0)

\* C13: two concurrent calls of a cleaning stage's process() on distinct
\* workbooks, on one shared stage object or on two, do not interfere: in
\* every interleaving a call that has returned (or raised) has the output it
\* has when it runs alone on its workbook.
OutputOf(t) ==
    IF cc_pc[t] = "raised" THEN [raised |-> TRUE, cls |-> "IndexError"]
    ELSE IF cc_stage = "JSONUniversalCleaningStage"
    THEN Returned(cc_ret[t])
    ELSE [raised |-> FALSE,
          workbook |-> cc_ret[t].workbook,
          cleaned_record_count |-> cc_ret[t].cleaned_record_count,
          json_extraction |-> cc_heap[cc_ret[t].json_extraction]]

AloneOutputOf(t) ==
    IF cc_stage = "JSONUniversalCleaningStage"
    THEN JsonProcess([EmptyData EXCEPT !.workbook = WorkbookOf(cc_wb[t])])
    ELSE PictureDayProcess(cc_wb[t])

C13_CallsDoNotInterfere ==
    \A t \in DOMAIN cc_pc :
        cc_pc[t] \in {"returned", "raised"} => OutputOf(t) = AloneOutputOf(t)

\* the same for calls that do not share a stage object
CallsOnOwnStageDoNotInterfere ==
    \A t \in DOMAIN cc_pc :
        (~cc_shared \/ cc_stage = "JSONUniversalCleaningStage")
            /\ cc_pc[t] \in {"returned", "raised"}
        => OutputOf(t) = AloneOutputOf(t)

\* C14: every emitted record whose supervisor is empty after the column
\* value and the title-row default has, when the workbook holds a schedule
\* sheet with at least one mapping, the schedule lookup of its group
\* (class_id) as its supervisor.
RecordsBeforeLookup == NormalizedSheetsFrom(raw_data, 1, <<>>)

C14_EmptySupervisorFromSchedule ==
    (js_pc = "done" /\ BuildTeacherMap(raw_data) # <<>>) =>
        \A k \in 1..Len(normalized_records) :
            RecordsBeforeLookup[k].teacher = "" =>
                normalized_records[k].teacher =
                    LookupTeacher(RecordsBeforeLookup[k].class_id,
                                  BuildTeacherMap(raw_data))

\* the rows of a sheet of raw_data that emit a record, in the order of the
\* records, each with the trimmed values of the columns matched to the
\* supervisor and to the group ("" when the column or the value is absent)
EmittingRowsWith(sheet_name, sheet_data, field_indices) ==
    LET at == Ascending({i \in 1..Len(sheet_data.rows) :
                   NormalizedRow(sheet_data.rows[i], field_indices, sheet_name,
                                 sheet_name, "", <<>>) # <<>>})
    IN [j \in 1..Len(at) |->
           [sheet_name |-> sheet_name,
            teacher_from_title |-> sheet_data.teacher_from_title,
            class_from_title |-> sheet_data.class_from_title,
            teacher_value |-> GetField(sheet_data.rows[at[j]], field_indices, "teacher"),
            class_value |-> GetField(sheet_data.rows[at[j]], field_indices, "class_id")]]

\* the same for the sheets of raw_data from the s-th on
RECURSIVE EmittingRows(_, _)
EmittingRows(raw, s) ==
    IF s > Len(raw) THEN <<>>
    ELSE (IF raw[s].val.is_schedule THEN <<>>
          ELSE EmittingRowsWith(raw[s].key, raw[s].val,
                                MatchHeadersToFields(raw[s].val.headers)))
         \o EmittingRows(raw, s + 1)

KeepsColumnValues(from, record) ==
    /\ from.teacher_value # "" => record.teacher = from.teacher_value
    /\ (from.teacher_value = "" /\ js_teacher_map = <<>>) =>
            record.teacher = from.teacher_from_title
    /\ record.class_id =
            IF from.class_value # "" THEN from.class_value
            ELSE IF from.class_from_title # "" THEN from.class_from_title
            ELSE from.sheet_name

AllKeepColumnValues(rows, records) ==
    /\ Len(rows) = Len(records)
    /\ \A k \in 1..Len(records) : KeepsColumnValues(rows[k], records[k])

\* C15: a record whose row has a non-empty value in the matched supervisor
\* column has exactly that trimmed value as its supervisor, whatever the
\* title rows and the schedule say; without a column value and without a
\* schedule map the supervisor is the title-row default; the group is the
\* column value, else the title-row class, else the sheet name.
C15_ColumnValueBeforeDefaults ==
    js_pc = "done" =>
        AllKeepColumnValues(EmittingRows(raw_data, 1), normalized_records)

OverridesTitleRows(from, record) ==
    /\ from.teacher_from_title # "" /\ from.class_from_title # ""
    /\ from.teacher_value # "" /\ from.teacher_value # from.teacher_from_title
    /\ from.class_value # "" /\ from.class_value # from.class_from_title
    /\ record.teacher = from.teacher_value
    /\ record.class_id = from.class_value

SomeOverridesTitleRows(rows, records) ==
    \E k \in 1..Len(records) : OverridesTitleRows(rows[k], records[k])

\* a record that keeps the supervisor and the group of its row although
\* the title rows of its sheet name another supervisor and another class
C15_Witness ==
    /\ js_pc = "done"
    /\ SomeOverridesTitleRows(EmittingRows(raw_data, 1), normalized_records)

\* the handler the first-match-wins order SKIP, SCHEDULE, GRID, STANDARD
\* gives a sheet
ClassOf(ws) ==
    IF ShouldSkipSheet(ws.name) THEN "SKIP"
    ELSE IF IsScheduleSheet(ws) THEN "SCHEDULE"
    ELSE IF IsGridFormat(ws) THEN "GRID"
    ELSE "STANDARD"

HandlerOutput(class, ws) ==
    CASE class = "SCHEDULE" -> ExtractScheduleData(ws)
      [] class = "GRID" -> ExtractGridFormatData(ws)
      [] class = "STANDARD" -> ExtractPlainData(ws)

\* the sheet left the extraction as its class says: skipped, or stored with
\* exactly the output of the one handler of its class
HandledAs(class, ws, out) ==
    IF class = "SKIP" \/ (out.rows = <<>> /\ ~out.is_schedule)
    THEN InSeq(ws.name, skipped_sheets) /\ ~MapHas(raw_data, ws.name)
    ELSE /\ InSeq(ws.name, processed_sheets)
         /\ ~InSeq(ws.name, skipped_sheets)
         /\ MapHas(raw_data, ws.name)
         /\ MapGet(raw_data, ws.name) = out

\* a sheet that meets both the schedule and the grid condition is stored,
\* if at all, as a schedule sheet, and no record comes from it
KeptFromGrid(class, ws) ==
    (class = "SCHEDULE" /\ IsGridFormat(ws)) =>
        /\ MapHas(raw_data, ws.name) => MapGet(raw_data, ws.name).is_schedule
        /\ \A r \in 1..Len(normalized_records) :
              normalized_records[r].source_sheet # ws.name

HandledByClass(class, ws) ==
    /\ HandledAs(class, ws,
                 IF class = "SKIP" THEN NoSheetData ELSE HandlerOutput(class, ws))
    /\ KeptFromGrid(class, ws)

\* C16: when process() is done each sheet has been handled by the one
\* handler the order SKIP, SCHEDULE, GRID, STANDARD gives it; a sheet that
\* meets both the schedule and the grid condition went to the schedule
\* handler and no record comes from it.
C16_FirstMatchWins ==
    js_pc = "done" =>
        \A k \in 1..Len(workbook) :
            HandledByClass(ClassOf(workbook[k]), workbook[k])

\* a sheet meeting both conditions, from which the grid transformer would
\* have taken rows, that went to the schedule handler and gave no record
C16_Witness ==
    /\ js_pc = "done"
    /\ \E k \in 1..Len(workbook) :
        /\ ClassOf(workbook[k]) = "SCHEDULE"
        /\ IsGridFormat(workbook[k])
        /\ ExtractGridFormatData(workbook[k]).rows # <<>>
        /\ HandledAs("SCHEDULE", workbook[k], ExtractScheduleData(workbook[k]))
        /\ \A r \in 1..Len(normalized_records) :
              normalized_records[r].source_sheet # workbook[k].name

\* whether the rows from..to of column A hold a 'teacher' label and at
\* least three 'student' labels
HasGridLabels(ws, from, to) ==
    /\ \E i \in from..Min(to, Len(ws.rows)) :
          Truthy(ws.rows[i][1]) /\ Contains("teacher", Strip(Lower(Str(ws.rows[i][1]))))
    /\ Cardinality({i \in from..Min(to, Len(ws.rows)) :
          Truthy(ws.rows[i][1]) /\ Contains("student", Strip(Lower(Str(ws.rows[i][1]))))}) >= 3

\* C17: _is_grid_format returns true for every sheet whose column A holds,
\* in rows 2 through 10, a label containing 'teacher' and at least three
\* labels containing 'student', a needed label in row 10 included.
C17_GridLabelsThroughRowTen ==
    (gf_pc = "done" /\ HasGridLabels(gf_sheet, 2, 10)) => gf_result

\* the same for the labels of rows 2 through 9
GridLabelsThroughRowNine ==
    (gf_pc = "done" /\ HasGridLabels(gf_sheet, 2, 9)) => gf_result

\* what each of the rows 1-10 of ws, counted from 0, resolves: <<>> for a
\* row without a usable name, else the row's quality score and indices
RowCandidates(ws) ==
    [i \in 0..(RoclHeaderRows - 1) |-> HeaderCandidate(RowAt(ws, i + 1), i)]

\* whether chosen is the earliest of the rows with a usable name that have
\* the highest score, or no row when no row has a usable name
EarliestOfHighest(resolved, chosen) ==
    LET usable == {i \in DOMAIN resolved : resolved[i] # <<>>}
    IN IF usable = {} THEN chosen = NoHeaderRow
       ELSE /\ chosen \in usable
            /\ \A i \in usable :
                  /\ resolved[i][1].quality_score <= resolved[chosen][1].quality_score
                  /\ resolved[i][1].quality_score = resolved[chosen][1].quality_score
                        => chosen <= i

\* C18: the header row _find_header_row_and_indices returns is, among the
\* rows 1-10 that resolve a usable name, the earliest of those with the
\* highest quality score; a row that resolves no usable name is never
\* returned, and no row is returned when there is none that does.
C18_HighestScoreEarliestRow ==
    (rc_pc = "done" /\ rc_stage = "ROCLCleaningStage") =>
        EarliestOfHighest(RowCandidates(rc_sheet), rc_header.header_row)

\* whether chosen follows a row with a usable name and a lower score and
\* precedes one with the same score
BetweenLowerAndEqual(resolved, chosen) ==
    /\ \E i \in DOMAIN resolved :
          /\ i < chosen /\ resolved[i] # <<>>
          /\ resolved[i][1].quality_score < resolved[chosen][1].quality_score
    /\ \E k \in DOMAIN resolved :
          /\ k > chosen /\ resolved[k] # <<>>
          /\ resolved[k][1].quality_score = resolved[chosen][1].quality_score

C18_Witness ==
    /\ rc_pc = "done" /\ rc_stage = "ROCLCleaningStage"
    /\ rc_header.header_row # NoHeaderRow
    /\ BetweenLowerAndEqual(RowCandidates(rc_sheet), rc_header.header_row)

\* the names ROCLCleaningStage builds from the first and last name cells of
\* the rows of ws from row i on that have one of the two
RECURSIVE RoclFirstLastNames(_, _, _, _)
RoclFirstLastNames(ws, i, first_idx, last_idx) ==
    IF i > MaxRowOf(ws) THEN <<>>
    ELSE (IF Truthy(ws.rows[i][first_idx]) \/ Truthy(ws.rows[i][last_idx])
          THEN <<RoclCleanName(JoinFirstLast(ws.rows[i][first_idx],
                                             ws.rows[i][last_idx]))>>
          ELSE <<>>)
         \o RoclFirstLastNames(ws, i + 1, first_idx, last_idx)

\* whether the header row of ws resolves a full-name, a first-name and a
\* last-name column
RoclResolvesAllNames(ws, header_row) ==
    /\ header_row # NoHeaderRow
    /\ LET found == ResolvedColumns(HeadersLower(RowAt(ws, header_row + 1)))
       IN found.student_full # 0 /\ found.student_first # 0
          /\ found.student_last # 0

\* the ROCL stage: with all three resolved, the names of the records are
\* the names built from the first and last name cells
RoclNamesFromFirstLast ==
    (rc_pc = "done" /\ rc_stage = "ROCLCleaningStage"
        /\ RoclResolvesAllNames(rc_sheet, rc_header.header_row)) =>
        [k \in 1..Len(rc_records) |-> rc_records[k].student]
            = RoclFirstLastNames(rc_sheet, rc_header.header_row + 2,
                                 rc_header.idxs.student_first,
                                 rc_header.idxs.student_last)

\* the names the JSON stage builds from the first and last name fields of
\* the extracted rows from row i on that have one of the two
RECURSIVE JsonFirstLastNames(_, _, _)
JsonFirstLastNames(rows, i, field_indices) ==
    IF i > Len(rows) THEN <<>>
    ELSE (IF GetField(rows[i], field_indices, "first_name") # ""
             \/ GetField(rows[i], field_indices, "last_name") # ""
          THEN <<JsonCleanName(Strip(
                    GetField(rows[i], field_indices, "first_name") \o " "
                    \o GetField(rows[i], field_indices, "last_name")))>>
          ELSE <<>>)
         \o JsonFirstLastNames(rows, i + 1, field_indices)

\* the same for the extraction raw of the one sheet and its records
JsonNamesFromFirstLastOf(raw, records) ==
    \A s \in 1..Len(raw) :
        (/\ ~raw[s].val.is_schedule
         /\ MatchHeadersToFields(raw[s].val.headers).student_name # 0
         /\ MatchHeadersToFields(raw[s].val.headers).first_name # 0
         /\ MatchHeadersToFields(raw[s].val.headers).last_name # 0) =>
            [k \in 1..Len(records) |-> records[k].student_name]
                = JsonFirstLastNames(raw[s].val.rows, 1,
                                     MatchHeadersToFields(raw[s].val.headers))

\* C19: when the header of a sheet resolves a full-name column and both a
\* first-name and a last-name column, the name of every record made of the
\* sheet is built from the first and last name cells and not from the
\* full-name cell, by the ROCL stage and by the JSON-universal stage alike.
C19_FirstLastBeforeFullName ==
    /\ RoclNamesFromFirstLast
    /\ (rc_pc = "done" /\ rc_stage = "JSONUniversalCleaningStage") =>
          JsonNamesFromFirstLastOf(ExtractSheetsFrom(<<rc_sheet>>, 1, <<>>),
                                   rc_records)

\* C20: every record ROCLCleaningStage._extract_and_clean emits has a
\* non-empty student name, whatever the name cells hold.
C20_NonEmptyStudentName ==
    (rc_pc = "done" /\ rc_stage = "ROCLCleaningStage") =>
        \A k \in 1..Len(rc_records) : rc_records[k].student # ""

\* what the row of ws at place i sets, the patterns tried in the order
\* Class/Teacher, Teacher, Class: <<>> for a field the row leaves alone
TitleRowSets(ws, i) ==
    LET cell == RowAt(ws, i)[1]
        text == Strip(Str(cell))
        both == Search([p \in 1..Len(text) |-> ClassTeacherAt(text, p)])
        teacher == Search([p \in 1..Len(text) |-> TeacherAt(text, p)])
        class == Search([p \in 1..Len(text) |-> ClassAt(text, p)])
    IN IF ~Truthy(cell) THEN [class |-> <<>>, teacher |-> <<>>]
       ELSE IF both.ok
            THEN [class |-> <<Strip(both.g1)>>, teacher |-> <<Strip(both.g2)>>]
       ELSE IF teacher.ok THEN [class |-> <<>>, teacher |-> <<Strip(teacher.g1)>>]
       ELSE IF class.ok THEN [class |-> <<Strip(class.g1)>>, teacher |-> <<>>]
       ELSE [class |-> <<>>, teacher |-> <<>>]

\* what the first ten rows of ws set
TitleRowsSet(ws) == [i \in 1..TitleScanRows |-> TitleRowSets(ws, i)]

\* the value of the last of the rows that set the field, "" when none does
LastSetClass(sets) ==
    LET setting == {i \in DOMAIN sets : sets[i].class # <<>>}
    IN IF setting = {} THEN ""
       ELSE sets[CHOOSE i \in setting : \A x \in setting : x <= i].class[1]

LastSetTeacher(sets) ==
    LET setting == {i \in DOMAIN sets : sets[i].teacher # <<>>}
    IN IF setting = {} THEN ""
       ELSE sets[CHOOSE i \in setting : \A x \in setting : x <= i].teacher[1]

\* C21: _extract_metadata_from_title_rows returns, for the class and for
\* the teacher, the value captured from the last of the first ten rows that
\* set it, where a row sets what the first of the patterns Class/Teacher,
\* Teacher, Class that matches its column-0 text captures.
C21_LastTitleRowWins ==
    fn_pc = "done" =>
        fn_out = [class_val |-> LastSetClass(TitleRowsSet(fn_arg)),
                  teacher_val |-> LastSetTeacher(TitleRowsSet(fn_arg))]

\* two rows set the class to different values, and one of the rows sets
\* both fields
OverwrittenClass(sets) ==
    /\ \E i, j \in DOMAIN sets :
          /\ i < j /\ sets[i].class # <<>> /\ sets[j].class # <<>>
          /\ sets[i].class # sets[j].class
    /\ \E i \in DOMAIN sets : sets[i].class # <<>> /\ sets[i].teacher # <<>>

C21_Witness ==
    fn_pc = "done" /\ fn_out.class_val # "" /\ OverwrittenClass(TitleRowsSet(fn_arg))

\* C22: no value of the schedule map that JSONUniversalCleaningStage builds
\* from a SCHEDULE sheet contains a newline or two spaces in a row.
C22_NoNewlineInScheduleMap ==
    fn_pc = "done" =>
        \A k \in 1..Len(fn_out) :
            ~Contains("\n", fn_out[k].val) /\ ~Contains("  ", fn_out[k].val)

\* a student sheet on which the header matching finds no name field
NoNameField(ws) ==
    LET sheet_data == ExtractSheetData(ws)
        field_indices == MatchHeadersToFields(sheet_data.headers)
    IN /\ ~sheet_data.is_schedule
       /\ field_indices.student_name = 0
       /\ field_indices.first_name = 0
       /\ field_indices.last_name = 0

WithoutSheet(sheets, k) ==
    [i \in 1..(Len(sheets) - 1) |-> IF i < k THEN sheets[i] ELSE sheets[i + 1]]

\* C23: a sheet with no resolvable name field gives no record, and the
\* records of the run are those of the workbook without that sheet.
C23_NamelessSheetIsolated ==
    fn_pc = "done" =>
        \A k \in 1..Len(fn_arg) :
            NoNameField(fn_arg[k]) =>
                /\ \A i \in 1..Len(fn_out) : fn_out[i].source_sheet # fn_arg[k].name
                /\ fn_out = NormalizeAndMatchFields(
                                ExtractSheetsFrom(WithoutSheet(fn_arg, k), 1, <<>>))

\* the part of C23 that the code keeps: the sheet itself gives no record
NamelessSheetGivesNoRecord ==
    fn_pc = "done" =>
        \A k \in 1..Len(fn_arg) :
            NoNameField(fn_arg[k]) =>
                \A i \in 1..Len(fn_out) : fn_out[i].source_sheet # fn_arg[k].name

\* C25: the title _make_sheet_name returns holds none of \ / * ? : [ ], has
\* '-' where the class value prefixed by "Class " has one of them, and is at
\* most 31 characters long.
C25_TitleCleanAndShort ==
    fn_pc = "done" =>
        LET named == "Class " \o fn_arg
        IN /\ Len(fn_out) = Min(SheetTitleLimit, Len(named))
           /\ \A i \in 1..Len(fn_out) :
                /\ Chr(fn_out, i) \notin InvalidTitleChars
                /\ Chr(fn_out, i) =
                      IF Chr(named, i) \in InvalidTitleChars THEN "-"
                      ELSE Chr(named, i)

\* a class value with a forbidden character that reaches past the limit
C25_Witness ==
    /\ fn_pc = "done"
    /\ Len("Class " \o fn_arg) > SheetTitleLimit
    /\ \E i \in 1..Len(fn_arg) : Chr(fn_arg, i) \in InvalidTitleChars
    /\ Len(fn_out) = SheetTitleLimit
    /\ Chr(fn_out, SheetTitleLimit) = "-"

\* the class keys and, per class, the students and the teachers of the data
\* rows of a standardized sheet, read off the rows themselves
RowClasses(ws) == {Strip(Str(ws.rows[i][3])) : i \in 2..Len(ws.rows)}

RowStudents(ws, cls) ==
    {Strip(Str(ws.rows[i][2])) :
        i \in {r \in 2..Len(ws.rows) : Strip(Str(ws.rows[r][3])) = cls}}

RowTeachers(ws, cls) ==
    {Strip(Str(ws.rows[i][1])) :
        i \in {r \in 2..Len(ws.rows) :
                Strip(Str(ws.rows[r][3])) = cls /\ Truthy(ws.rows[r][1])}}

\* the class a sheet was written for: column B of its first student row
SheetClass(sheet) == sheet.rows[2][2].v

\* the rows of a sheet between the header row and the two footer rows
StudentRows(sheet) == SubSeq(sheet.rows, 2, Len(sheet.rows) - 2)

\* C24: the workbook has one sheet per class in ascending order of the class
\* key; a sheet lists the students of its class in ascending order without
\* repeats, then 'Teacher: <name>' (or 'Teacher:'), then 'Advisor:'.
C24_SheetsAndStudentsAscending ==
    (fn_pc = "done" /\ Len(fn_arg.rows) > 1) =>
        /\ {SheetClass(fn_out[k]) : k \in 1..Len(fn_out)} = RowClasses(fn_arg)
        /\ \A k \in 1..(Len(fn_out) - 1) :
              StrLess(SheetClass(fn_out[k]), SheetClass(fn_out[k + 1]))
        /\ \A k \in 1..Len(fn_out) :
              LET sheet == fn_out[k]
                  students == StudentRows(sheet)
                  n == Len(sheet.rows)
              IN /\ sheet.rows[1] = <<S("Student Name"), S("Class")>>
                 /\ {students[i][1].v : i \in 1..Len(students)}
                        = RowStudents(fn_arg, SheetClass(sheet))
                 /\ \A i \in 1..Len(students) :
                        students[i][2] = S(SheetClass(sheet))
                 /\ \A i \in 1..(Len(students) - 1) :
                        StrLess(students[i][1].v, students[i + 1][1].v)
                 /\ sheet.rows[n] = <<S("Advisor:"), None>>
                 /\ IF RowTeachers(fn_arg, SheetClass(sheet)) = {}
                    THEN sheet.rows[n - 1] = <<S("Teacher:"), None>>
                    ELSE \E t \in RowTeachers(fn_arg, SheetClass(sheet)) :
                            sheet.rows[n - 1] = <<S("Teacher: " \o t), None>>

\* two classes met in descending order, one of them with a repeated student
\* and two students met in descending order
C24_Witness ==
    /\ fn_pc = "done"
    /\ Len(fn_out) = 2
    /\ Strip(Str(fn_arg.rows[2][3])) = SheetClass(fn_out[2])
    /\ \E k \in 1..2 :
        /\ Len(fn_out[k].rows) = 5
        /\ fn_out[k].rows[4] = <<S("Teacher:"), None>>
    /\ \E i \in 2..Len(fn_arg.rows), j \in 2..Len(fn_arg.rows) :
        i < j /\ fn_arg.rows[i][3] = fn_arg.rows[j][3]
              /\ StrLess(fn_arg.rows[j][2].v, fn_arg.rows[i][2].v)

\* C30: the sheets of one output workbook, one per class key, are asked to
\* have pairwise different titles.
C30_DistinctTitles ==
    fn_pc = "done" =>
        \A i, j \in 1..Len(fn_out) : i # j => fn_out[i].title # fn_out[j].title

\* the records of the data sheets as read from the sheets, before the
\* schedule map is looked at
RECURSIVE RecordsAsRead(_, _)
RecordsAsRead(sheets, k) ==
    IF k > Len(sheets) THEN <<>>
    ELSE (IF Strip(Lower(sheets[k].name)) \in RoclSkippedNames THEN <<>>
          ELSE ExtractAndCleanWith(sheets[k], FindHeaderRowAndIndices(sheets[k])))
         \o RecordsAsRead(sheets, k + 1)

\* C26: a record whose teacher was read non-empty from its sheet leaves
\* ROCLCleaningStage.process with that teacher.
C26_PresentTeacherKept ==
    fn_pc = "done" =>
        LET read == RecordsAsRead(fn_arg, 1)
        IN /\ Len(fn_out) = Len(read)
           /\ \A i \in 1..Len(read) :
                read[i].teacher # "" => fn_out[i].teacher = read[i].teacher

\* what the code does keep: a record with no teacher gets the teachers the
\* map has for its class
MissingTeacherFilled ==
    fn_pc = "done" =>
        LET read == RecordsAsRead(fn_arg, 1)
            tmap == RoclExtractTeacherMap(fn_arg)
        IN \A i \in 1..Len(read) :
                read[i].teacher = "" =>
                    fn_out[i].teacher =
                        FindTeachersForClass(Strip(read[i].class), tmap)

\* C27: every data row of the workbook PictureDayCleaningStage writes has a
\* non-empty Class cell.
C27_ClassNeverEmpty ==
    (fn_pc = "done" /\ ~fn_out.raised) =>
        \A r \in 2..Len(fn_out.workbook.rows) :
            /\ Truthy(fn_out.workbook.rows[r][3])
            /\ Strip(Str(fn_out.workbook.rows[r][3])) # ""

\* what the code does keep: a student whose grade text is recognised as
\* 6th, 7th or 8th gets a non-empty class
RecognisedGradeHasClass ==
    (fn_pc = "done" /\ ~fn_out.raised) =>
        \A i \in 1..Len(fn_out.json_extraction.students) :
            GradeKeyOf(fn_out.json_extraction.students[i].grade) # "" =>
                /\ Truthy(fn_out.json_extraction.students[i].class)
                /\ Str(fn_out.json_extraction.students[i].class) # ""

\* C28: a step of execute that runs a stage runs the next stage of the list
\* on the data the previous one returned and saves nothing; a step that
\* saves the output comes after every stage has returned; once a stage has
\* raised no stage runs and nothing is saved.
C28_StagesInOrderSaveLast ==
    [][/\ pl_k' # pl_k =>
            /\ pl_pc = "stages" /\ pl_exc.cls = ""
            /\ pl_k' = pl_k + 1
            /\ ~StageProcess(pl_stages[pl_k + 1], pl_data).raised
            /\ pl_data' = StageProcess(pl_stages[pl_k + 1], pl_data).data
            /\ pl_saved' = pl_saved
       /\ pl_saved' # pl_saved =>
            /\ pl_saved = Absent
            /\ pl_k = Len(pl_stages) /\ pl_k' = pl_k
            /\ pl_exc.cls = ""
       /\ pl_exc.cls # "" =>
            /\ pl_k' = pl_k /\ pl_data' = pl_data
            /\ pl_saved = Absent /\ pl_saved' = pl_saved
       /\ (pl_pc = "stages" /\ pl_k < Len(pl_stages)
            /\ StageProcess(pl_stages[pl_k + 1], pl_data).raised) =>
            /\ pl_exc'.cls # "" /\ pl_k' = pl_k /\ pl_saved' = pl_saved
      ]_vars

\* the second of two stages has raised after the first returned
C28_Witness ==
    /\ Len(pl_stages) = 2
    /\ pl_k = 1
    /\ pl_exc.cls # ""
    /\ pl_saved = Absent
    /\ pl_pc \in {"returned", "raised"}

\* C29: while a ProcessThread of a stage is in flight the stage's start
\* button is disabled, and no stage has two threads in flight.
C29_ButtonDisabledWhileRunning ==
    /\ clean_running > 0 => ~clean_btn
    /\ split_running > 0 => ~split_btn
    /\ clean_running <= 1
    /\ split_running <= 1

\* what the code does keep: a run starts only from an enabled button, which
\* the start disables, so a second run needs a handler that enables the
\* button in between
StartDisablesButton ==
    [][/\ clean_running' > clean_running => (clean_btn /\ ~clean_btn')
       /\ split_running' > split_running => (split_btn /\ ~split_btn')]_vars

=============================================================================
